---- MODULE Spec2Model ----
(***************************************************************************)
(* Behaviour simulation of the desktop pet: the state table                *)
(* (behavior/states.ts), the BehaviorEngine (behavior/engine.ts), the      *)
(* MovementController (behavior/movement.ts) and the                       *)
(* ActivitySignalAccumulator (behavior/signals.ts).                        *)
(*                                                                         *)
(* Units.  Times are integer milliseconds (now, stateStartTime,            *)
(* lastTransitionEval, tick timestamps, and the frame time dt, which the   *)
(* code holds in seconds: dt = dtMs / 1000).  Positions and the vertical   *)
(* velocity are fixed point with PosScale units per pixel, so that         *)
(* speed * direction * dt is the integer speed * direction * dtMs.         *)
(* A random draw Math.random() in [0,1) is an integer number of            *)
(* hundredths 0..99 (0.15 is 15).  The two activity signals are exact      *)
(* rationals [num, den] with den > 0.                                      *)
(***************************************************************************)
EXTENDS Integers, Sequences, FiniteSets, TLC

VARIABLES
    clock,               \* performance.now() / the rAF timestamp, ms
    state,               \* BehaviorEngine.state
    stateStartTime,      \* BehaviorEngine.stateStartTime
    lastTransitionEval,  \* BehaviorEngine.lastTransitionEval
    positionSynced,      \* BehaviorEngine.positionSynced
    wanderEnabled,       \* BehaviorEngine.wanderEnabled
    activityLevel,       \* BehaviorEngine.activityLevel (rational)
    switchRate,          \* BehaviorEngine.switchRate (rational)
    isMonitoring,        \* BehaviorEngine.isMonitoring
    availableAnimations, \* BehaviorEngine.availableAnimations
    x,                   \* MovementController.x
    y,                   \* MovementController.y
    direction,           \* MovementController.direction
    velocityY,           \* MovementController.velocityY
    screenWidth,         \* MovementController.screenWidth
    screenHeight,        \* MovementController.screenHeight
    petSize,             \* MovementController.petSize
    ticks,               \* ActivitySignalAccumulator.ticks
    emitted,             \* callbacks emitted by the last operation, in order
    observed,            \* the last operation, and its inputs where they are recorded
    hostEvents,          \* number of host configuration events so far
    pendingEntry,        \* history: a walk/run entry not yet followed by syncPosition
    outerPositionPending, \* host: outerPosition() promises not yet settled
    windowPosition,      \* the position the window system reports, / scale factor
    positionUpdateFrame, \* host: positionUpdateFrame, modulo 2
    isDragging,          \* host: isDragging
    startDraggingPending, \* host: startDragging() promises not yet settled
    dragPolls,           \* host: the waitForDragEnd() calls in flight, each
                         \* with its lastX, lastY and stableCount
    finalPos             \* host: the values waitForDragEnd() has returned to
                         \* onPointerMove activations that have not resumed

vars ==
    << clock, state, stateStartTime, lastTransitionEval, positionSynced,
       wanderEnabled, activityLevel, switchRate, isMonitoring,
       availableAnimations, x, y, direction, velocityY, screenWidth,
       screenHeight, petSize, ticks, emitted, observed, hostEvents,
       pendingEntry, outerPositionPending, windowPosition,
       positionUpdateFrame, isDragging, startDraggingPending, dragPolls,
       finalPos >>

engineVars ==
    << state, stateStartTime, lastTransitionEval, positionSynced,
       wanderEnabled, activityLevel, switchRate, isMonitoring,
       availableAnimations >>

movementVars ==
    << x, y, direction, velocityY, screenWidth, screenHeight, petSize >>

windowVars == << windowPosition, positionUpdateFrame >>

dragVars == << isDragging, startDraggingPending, dragPolls, finalPos >>

hostVars ==
    << outerPositionPending, windowPosition, positionUpdateFrame, isDragging,
       startDraggingPending, dragPolls, finalPos >>

----------------------------------------------------------------------------
(* Scales and program constants *)

PosScale == 10 * 100

TRANSITION_INTERVAL == 500

WINDOW_MS == 60000

MAX_HASH_DISTANCE == 64

GRAVITY == 800

TERMINAL_VELOCITY == 600 * PosScale

MARGIN == 4 * PosScale

BehaviorStates == {"idle", "walk", "sleep", "run"}

----------------------------------------------------------------------------
(* Rationals: the value num / den, den > 0 *)

Rat(n, d) == [num |-> n, den |-> d]

RatGT(r, n, d) == r.num * d > n * r.den

RatLT(r, n, d) == r.num * d < n * r.den

----------------------------------------------------------------------------
(* behavior/states.ts: STATE_CONFIGS.  A rule is [to, condition]; the      *)
(* condition closures are named and interpreted by Condition.              *)

\* Variant of STATE_CONFIGS: the rule of walk leads to sleep
STATE_CONFIGS_WalkToSleep ==
    [ idle |->
        [ animation |-> "idle", minDuration |-> 2000, canMove |-> FALSE,
          speed |-> 0, interruptible |-> TRUE,
          transitions |-> << [to |-> "walk",  condition |-> "idle.walk"],
                             [to |-> "sleep", condition |-> "idle.sleep"],
                             [to |-> "run",   condition |-> "idle.run"] >> ],
      walk |->
        [ animation |-> "walk", minDuration |-> 3000, canMove |-> TRUE,
          speed |-> 40, interruptible |-> TRUE,
          transitions |-> << [to |-> "sleep", condition |-> "walk.idle"] >> ],
      sleep |->
        [ animation |-> "sleep", minDuration |-> 10000, canMove |-> FALSE,
          speed |-> 0, interruptible |-> TRUE,
          transitions |-> << [to |-> "idle", condition |-> "sleep.idle.activity"],
                             [to |-> "idle", condition |-> "sleep.idle.random"] >> ],
      run |->
        [ animation |-> "run", minDuration |-> 2000, canMove |-> TRUE,
          speed |-> 100, interruptible |-> TRUE,
          transitions |-> << [to |-> "walk", condition |-> "run.walk"],
                             [to |-> "idle", condition |-> "run.idle"] >> ] ]

STATE_CONFIGS ==
    [ idle |->
        [ animation |-> "idle", minDuration |-> 2000, canMove |-> FALSE,
          speed |-> 0, interruptible |-> TRUE,
          transitions |-> << [to |-> "walk",  condition |-> "idle.walk"],
                             [to |-> "sleep", condition |-> "idle.sleep"],
                             [to |-> "run",   condition |-> "idle.run"] >> ],
      walk |->
        [ animation |-> "walk", minDuration |-> 3000, canMove |-> TRUE,
          speed |-> 40, interruptible |-> TRUE,
          transitions |-> << [to |-> "idle", condition |-> "walk.idle"] >> ],
      sleep |->
        [ animation |-> "sleep", minDuration |-> 10000, canMove |-> FALSE,
          speed |-> 0, interruptible |-> TRUE,
          transitions |-> << [to |-> "idle", condition |-> "sleep.idle.activity"],
                             [to |-> "idle", condition |-> "sleep.idle.random"] >> ],
      run |->
        [ animation |-> "run", minDuration |-> 2000, canMove |-> TRUE,
          speed |-> 100, interruptible |-> TRUE,
          transitions |-> << [to |-> "walk", condition |-> "run.walk"],
                             [to |-> "idle", condition |-> "run.idle"] >> ] ]

isNight(timeOfDay) == timeOfDay >= 22 \/ timeOfDay < 6

\* Variant of sleepChance: the night chance at every hour
sleepChance_AlwaysNight(timeOfDay) == 30

\* Variant of sleepChance: a day chance of 0.20
sleepChance_DayFifth(timeOfDay) == IF isNight(timeOfDay) THEN 30 ELSE 20

sleepChance(timeOfDay) == IF isNight(timeOfDay) THEN 30 ELSE 10

\* Variant of Condition: the idle -> walk rule asks for a draw below 0.10
Condition_WalkDraw10(c, ctx) ==
    CASE c = "idle.walk"  -> ctx.timeInState > 8000 /\ ctx.randomRoll < 10
      [] c = "idle.sleep" -> ctx.timeInState > 20000
                             /\ ctx.randomRoll < sleepChance(ctx.timeOfDay)
      [] c = "idle.run"   -> RatGT(ctx.switchRate, 6, 1)
      [] c = "walk.idle"  -> ctx.timeInState > 8000 /\ ctx.randomRoll < 20
      [] c = "sleep.idle.activity" ->
             RatGT(ctx.activityLevel, 6, 10) /\ ctx.timeInState > 15000
      [] c = "sleep.idle.random" ->
             ctx.timeInState > 30000 /\ ctx.randomRoll < 5
      [] c = "run.walk"   -> RatLT(ctx.switchRate, 3, 1) /\ ctx.timeInState > 3000
      [] c = "run.idle"   -> ctx.timeInState > 6000 /\ ctx.randomRoll < 20

\* Variant of Condition: sleep is left at an activity level of 0.6 too
Condition_WakeAtSixTenths(c, ctx) ==
    CASE c = "idle.walk"  -> ctx.timeInState > 8000 /\ ctx.randomRoll < 15
      [] c = "idle.sleep" -> ctx.timeInState > 20000
                             /\ ctx.randomRoll < sleepChance(ctx.timeOfDay)
      [] c = "idle.run"   -> RatGT(ctx.switchRate, 6, 1)
      [] c = "walk.idle"  -> ctx.timeInState > 8000 /\ ctx.randomRoll < 20
      [] c = "sleep.idle.activity" ->
             ~RatLT(ctx.activityLevel, 6, 10) /\ ctx.timeInState > 15000
      [] c = "sleep.idle.random" ->
             ctx.timeInState > 30000 /\ ctx.randomRoll < 5
      [] c = "run.walk"   -> RatLT(ctx.switchRate, 3, 1) /\ ctx.timeInState > 3000
      [] c = "run.idle"   -> ctx.timeInState > 6000 /\ ctx.randomRoll < 20

\* Variant of Condition: run gives way to walk at a switch rate of 3 too
Condition_RunWalkAtThree(c, ctx) ==
    CASE c = "idle.walk"  -> ctx.timeInState > 8000 /\ ctx.randomRoll < 15
      [] c = "idle.sleep" -> ctx.timeInState > 20000
                             /\ ctx.randomRoll < sleepChance(ctx.timeOfDay)
      [] c = "idle.run"   -> RatGT(ctx.switchRate, 6, 1)
      [] c = "walk.idle"  -> ctx.timeInState > 8000 /\ ctx.randomRoll < 20
      [] c = "sleep.idle.activity" ->
             RatGT(ctx.activityLevel, 6, 10) /\ ctx.timeInState > 15000
      [] c = "sleep.idle.random" ->
             ctx.timeInState > 30000 /\ ctx.randomRoll < 5
      [] c = "run.walk"   -> ~RatGT(ctx.switchRate, 3, 1) /\ ctx.timeInState > 3000
      [] c = "run.idle"   -> ctx.timeInState > 6000 /\ ctx.randomRoll < 20

\* Variant of Condition: idle gives way to run only while monitoring
Condition_RunWhileMonitoring(c, ctx) ==
    CASE c = "idle.walk"  -> ctx.timeInState > 8000 /\ ctx.randomRoll < 15
      [] c = "idle.sleep" -> ctx.timeInState > 20000
                             /\ ctx.randomRoll < sleepChance(ctx.timeOfDay)
      [] c = "idle.run"   -> RatGT(ctx.switchRate, 6, 1) /\ ctx.isMonitoring
      [] c = "walk.idle"  -> ctx.timeInState > 8000 /\ ctx.randomRoll < 20
      [] c = "sleep.idle.activity" ->
             RatGT(ctx.activityLevel, 6, 10) /\ ctx.timeInState > 15000
      [] c = "sleep.idle.random" ->
             ctx.timeInState > 30000 /\ ctx.randomRoll < 5
      [] c = "run.walk"   -> RatLT(ctx.switchRate, 3, 1) /\ ctx.timeInState > 3000
      [] c = "run.idle"   -> ctx.timeInState > 6000 /\ ctx.randomRoll < 20

\* Variant of Condition: walk gives way to idle on a draw below 0.05
Condition_WalkIdleDraw5(c, ctx) ==
    CASE c = "idle.walk"  -> ctx.timeInState > 8000 /\ ctx.randomRoll < 15
      [] c = "idle.sleep" -> ctx.timeInState > 20000
                             /\ ctx.randomRoll < sleepChance(ctx.timeOfDay)
      [] c = "idle.run"   -> RatGT(ctx.switchRate, 6, 1)
      [] c = "walk.idle"  -> ctx.timeInState > 8000 /\ ctx.randomRoll < 5
      [] c = "sleep.idle.activity" ->
             RatGT(ctx.activityLevel, 6, 10) /\ ctx.timeInState > 15000
      [] c = "sleep.idle.random" ->
             ctx.timeInState > 30000 /\ ctx.randomRoll < 5
      [] c = "run.walk"   -> RatLT(ctx.switchRate, 3, 1) /\ ctx.timeInState > 3000
      [] c = "run.idle"   -> ctx.timeInState > 6000 /\ ctx.randomRoll < 20

Condition(c, ctx) ==
    CASE c = "idle.walk"  -> ctx.timeInState > 8000 /\ ctx.randomRoll < 15
      [] c = "idle.sleep" -> ctx.timeInState > 20000
                             /\ ctx.randomRoll < sleepChance(ctx.timeOfDay)
      [] c = "idle.run"   -> RatGT(ctx.switchRate, 6, 1)
      [] c = "walk.idle"  -> ctx.timeInState > 8000 /\ ctx.randomRoll < 20
      [] c = "sleep.idle.activity" ->
             RatGT(ctx.activityLevel, 6, 10) /\ ctx.timeInState > 15000
      [] c = "sleep.idle.random" ->
             ctx.timeInState > 30000 /\ ctx.randomRoll < 5
      [] c = "run.walk"   -> RatLT(ctx.switchRate, 3, 1) /\ ctx.timeInState > 3000
      [] c = "run.idle"   -> ctx.timeInState > 6000 /\ ctx.randomRoll < 20

----------------------------------------------------------------------------
(* behavior/movement.ts: MovementController.  m is any record with the     *)
(* fields x, y, direction, velocityY, screenWidth, screenHeight, petSize.  *)

groundY(m) == m.screenHeight - m.petSize

\* Variant of moveHorizontal: no clamp at the right edge
moveHorizontal_NoRightClamp(m, speed, dt) ==
    LET nx == m.x + speed * m.direction * dt
    IN  IF nx <= MARGIN
        THEN [m EXCEPT !.x = MARGIN, !.direction = 1]
        ELSE [m EXCEPT !.x = nx]

\* Variant of moveHorizontal: turns around past the right edge without
\* clamping x
moveHorizontal_TurnEarly(m, speed, dt) ==
    LET nx    == m.x + speed * m.direction * dt
        right == m.screenWidth - m.petSize - MARGIN
    IN  IF nx <= MARGIN
        THEN [m EXCEPT !.x = MARGIN, !.direction = 1]
        ELSE IF nx >= right
             THEN [m EXCEPT !.x = nx, !.direction = -1]
             ELSE [m EXCEPT !.x = nx]

moveHorizontal(m, speed, dt) ==
    LET nx    == m.x + speed * m.direction * dt
        right == m.screenWidth - m.petSize - MARGIN
    IN  IF nx <= MARGIN
        THEN [m EXCEPT !.x = MARGIN, !.direction = 1]
        ELSE IF nx >= right
             THEN [m EXCEPT !.x = right, !.direction = -1]
             ELSE [m EXCEPT !.x = nx]

syncFromWindow(m, px, py) == [m EXCEPT !.x = px, !.y = py]

\* Variant of updateBounds: x is clamped into the new range at once
movementUpdateBounds_Reclamps(m, sw, sh, ps) ==
    LET right == sw - ps - MARGIN
        cx    == IF m.x < MARGIN THEN MARGIN
                 ELSE IF m.x > right THEN right ELSE m.x
    IN  [m EXCEPT !.screenWidth = sw, !.screenHeight = sh, !.petSize = ps,
                  !.x = cx]

movementUpdateBounds(m, sw, sh, ps) ==
    [m EXCEPT !.screenWidth = sw, !.screenHeight = sh, !.petSize = ps]

\* Variant of applyGravity: no terminal velocity
applyGravity_NoCap(m, dt) ==
    LET v1 == m.velocityY + GRAVITY * dt
        y1 == m.y + (v1 * dt) \div PosScale
    IN  IF y1 >= groundY(m)
        THEN [m EXCEPT !.y = groundY(m), !.velocityY = 0]
        ELSE [m EXCEPT !.y = y1, !.velocityY = v1]

\* dt is a multiple of 5 ms here, which makes velocityY * dt a whole
\* number of position units
applyGravity(m, dt) ==
    LET v1 == m.velocityY + GRAVITY * dt
        v2 == IF v1 > TERMINAL_VELOCITY THEN TERMINAL_VELOCITY ELSE v1
        y1 == m.y + (v2 * dt) \div PosScale
    IN  IF y1 >= groundY(m)
        THEN [m EXCEPT !.y = groundY(m), !.velocityY = 0]
        ELSE [m EXCEPT !.y = y1, !.velocityY = v2]

applyGravityResult(m, dt) ==
    LET v1 == m.velocityY + GRAVITY * dt
        v2 == IF v1 > TERMINAL_VELOCITY THEN TERMINAL_VELOCITY ELSE v1
    IN  m.y + (v2 * dt) \div PosScale >= groundY(m)

startFall(m) == [m EXCEPT !.velocityY = 0]

clampToGround(m) == IF m.y > groundY(m) THEN [m EXCEPT !.y = groundY(m)] ELSE m

isOnGround(m) == m.y >= groundY(m) - PosScale

\* Math.round: the nearest integer pixel, halves rounded up
MathRound(v) == (2 * v + PosScale) \div (2 * PosScale)

----------------------------------------------------------------------------
(* behavior/engine.ts: BehaviorEngine.  e is the record of the engine's    *)
(* fields, its MovementController's fields, and the callbacks emitted so   *)
(* far by the running operation.                                           *)

AnimationChange(a, d) == [cb |-> "onAnimationChange", animation |-> a, direction |-> d]

PositionChange(px, py) == [cb |-> "onPositionChange", x |-> px, y |-> py]

StateChange(s) == [cb |-> "onStateChange", state |-> s]

Emit(e, c) == [e EXCEPT !.emitted = Append(@, c)]

\* Variant of resolveAnimation: no fallback
resolveAnimation_NoFallback(e, animation) == animation

\* Variant of resolveAnimation: the fallback is always taken
resolveAnimation_AlwaysIdle(e, animation) == "idle"

resolveAnimation(e, animation) ==
    IF animation \in e.availableAnimations THEN animation ELSE "idle"

\* Variant of transitionTo: no veto of walk/run while wander is disabled
transitionTo_NoVeto(e, newState, now) ==
    LET config == STATE_CONFIGS[newState]
        e1 == [e EXCEPT !.state = newState,
                        !.stateStartTime = now,
                        !.positionSynced =
                            IF config.canMove THEN FALSE ELSE @]
        animation == resolveAnimation(e1, config.animation)
    IN  Emit(Emit(e1, AnimationChange(animation, e1.direction)),
             StateChange(newState))

\* Variant of transitionTo: entering walk/run does not block movement
transitionTo_NoSyncBlock(e, newState, now) ==
    IF ~e.wanderEnabled /\ (newState = "walk" \/ newState = "run")
    THEN e
    ELSE LET config == STATE_CONFIGS[newState]
             e1 == [e EXCEPT !.state = newState, !.stateStartTime = now]
             animation == resolveAnimation(e1, config.animation)
         IN  Emit(Emit(e1, AnimationChange(animation, e1.direction)),
                  StateChange(newState))

\* Variant of transitionTo: only walk is vetoed while wander is disabled
transitionTo_VetoWalkOnly(e, newState, now) ==
    IF ~e.wanderEnabled /\ newState = "walk"
    THEN e
    ELSE LET config == STATE_CONFIGS[newState]
             e1 == [e EXCEPT !.state = newState,
                             !.stateStartTime = now,
                             !.positionSynced =
                                 IF config.canMove THEN FALSE ELSE @]
             animation == resolveAnimation(e1, config.animation)
         IN  Emit(Emit(e1, AnimationChange(animation, e1.direction)),
                  StateChange(newState))

\* Variant of transitionTo: the sync flag follows the target state, so
\* entering idle or sleep unblocks movement
transitionTo_FlagFollowsTarget(e, newState, now) ==
    IF ~e.wanderEnabled /\ (newState = "walk" \/ newState = "run")
    THEN e
    ELSE LET config == STATE_CONFIGS[newState]
             e1 == [e EXCEPT !.state = newState,
                             !.stateStartTime = now,
                             !.positionSynced = ~config.canMove]
             animation == resolveAnimation(e1, config.animation)
         IN  Emit(Emit(e1, AnimationChange(animation, e1.direction)),
                  StateChange(newState))

transitionTo(e, newState, now) ==
    IF ~e.wanderEnabled /\ (newState = "walk" \/ newState = "run")
    THEN e
    ELSE LET config == STATE_CONFIGS[newState]
             e1 == [e EXCEPT !.state = newState,
                             !.stateStartTime = now,
                             !.positionSynced =
                                 IF config.canMove THEN FALSE ELSE @]
             animation == resolveAnimation(e1, config.animation)
         IN  Emit(Emit(e1, AnimationChange(animation, e1.direction)),
                  StateChange(newState))

\* Variant of FirstMatch: the last rule whose condition holds wins
RECURSIVE FirstMatch_LastWins(_, _, _)
FirstMatch_LastWins(rules, i, ctx) ==
    IF i > Len(rules) THEN 0
    ELSE LET later == FirstMatch_LastWins(rules, i + 1, ctx)
         IN  IF later # 0 THEN later
             ELSE IF Condition(rules[i].condition, ctx) THEN i ELSE 0

\* The index of the first rule of the list whose condition holds, from i
\* on; 0 when none does
RECURSIVE FirstMatch(_, _, _)
FirstMatch(rules, i, ctx) ==
    IF i > Len(rules) THEN 0
    ELSE IF Condition(rules[i].condition, ctx) THEN i
         ELSE FirstMatch(rules, i + 1, ctx)

\* Variant of evaluateTransitions: the rules are tried before minDuration
\* has elapsed
evaluateTransitions_NoGate(e, now, hour, roll) ==
    LET config == STATE_CONFIGS[e.state]
        ctx == [ timeInState   |-> now - e.stateStartTime,
                 activityLevel |-> e.activityLevel,
                 switchRate    |-> e.switchRate,
                 timeOfDay     |-> hour,
                 isMonitoring  |-> e.isMonitoring,
                 randomRoll    |-> roll ]
        i == FirstMatch(config.transitions, 1, ctx)
    IN  IF i = 0 THEN e
        ELSE transitionTo(e, config.transitions[i].to, now)

\* Variant of evaluateTransitions: nothing is evaluated while a position
\* sync is pending
evaluateTransitions_WaitsForSync(e, now, hour, roll) ==
    LET config == STATE_CONFIGS[e.state]
        timeInState == now - e.stateStartTime
        ctx == [ timeInState   |-> timeInState,
                 activityLevel |-> e.activityLevel,
                 switchRate    |-> e.switchRate,
                 timeOfDay     |-> hour,
                 isMonitoring  |-> e.isMonitoring,
                 randomRoll    |-> roll ]
        i == FirstMatch(config.transitions, 1, ctx)
    IN  IF timeInState < config.minDuration THEN e
        ELSE IF ~config.interruptible THEN e
        ELSE IF ~e.positionSynced THEN e
        ELSE IF i = 0 THEN e
        ELSE transitionTo(e, config.transitions[i].to, now)

\* Variant of evaluateTransitions: when the first matching rule is vetoed
\* the next matching rule is taken
evaluateTransitions_TriesLater(e, now, hour, roll) ==
    LET config == STATE_CONFIGS[e.state]
        timeInState == now - e.stateStartTime
        ctx == [ timeInState   |-> timeInState,
                 activityLevel |-> e.activityLevel,
                 switchRate    |-> e.switchRate,
                 timeOfDay     |-> hour,
                 isMonitoring  |-> e.isMonitoring,
                 randomRoll    |-> roll ]
        i == FirstMatch(config.transitions, 1, ctx)
        j == FirstMatch(config.transitions, i + 1, ctx)
    IN  IF timeInState < config.minDuration THEN e
        ELSE IF ~config.interruptible THEN e
        ELSE IF i = 0 THEN e
        ELSE IF transitionTo(e, config.transitions[i].to, now) # e
        THEN transitionTo(e, config.transitions[i].to, now)
        ELSE IF j = 0 THEN e
        ELSE transitionTo(e, config.transitions[j].to, now)

evaluateTransitions(e, now, hour, roll) ==
    LET config == STATE_CONFIGS[e.state]
        timeInState == now - e.stateStartTime
        ctx == [ timeInState   |-> timeInState,
                 activityLevel |-> e.activityLevel,
                 switchRate    |-> e.switchRate,
                 timeOfDay     |-> hour,
                 isMonitoring  |-> e.isMonitoring,
                 randomRoll    |-> roll ]
        i == FirstMatch(config.transitions, 1, ctx)
    IN  IF timeInState < config.minDuration THEN e
        ELSE IF ~config.interruptible THEN e
        ELSE IF i = 0 THEN e
        ELSE transitionTo(e, config.transitions[i].to, now)

\* Variant of update: the transitions are evaluated on every frame
update_NoThrottle(e, now, dt, hour, roll) ==
    LET e1 == evaluateTransitions([e EXCEPT !.lastTransitionEval = now],
                                  now, hour, roll)
        config == STATE_CONFIGS[e1.state]
    IN  IF config.canMove /\ config.speed > 0 /\ e1.positionSynced
        THEN LET e2 == moveHorizontal(e1, config.speed, dt)
                 e3 == IF e2.direction # e1.direction
                       THEN Emit(e2, AnimationChange(
                                   resolveAnimation(e2, config.animation),
                                   e2.direction))
                       ELSE e2
             IN  IF MathRound(e1.x) # MathRound(e3.x)
                 THEN Emit(e3, PositionChange(e3.x, e3.y))
                 ELSE e3
        ELSE e1

\* Variant of update: the position-change callback is emitted whenever x
\* changed, rounded or not
update_EmitsEveryMove(e, now, dt, hour, roll) ==
    LET e1 == IF now - e.lastTransitionEval >= TRANSITION_INTERVAL
              THEN evaluateTransitions([e EXCEPT !.lastTransitionEval = now],
                                       now, hour, roll)
              ELSE e
        config == STATE_CONFIGS[e1.state]
    IN  IF config.canMove /\ config.speed > 0 /\ e1.positionSynced
        THEN LET e2 == moveHorizontal(e1, config.speed, dt)
                 e3 == IF e2.direction # e1.direction
                       THEN Emit(e2, AnimationChange(
                                   resolveAnimation(e2, config.animation),
                                   e2.direction))
                       ELSE e2
             IN  IF e1.x # e3.x
                 THEN Emit(e3, PositionChange(e3.x, e3.y))
                 ELSE e3
        ELSE e1

\* Variant of update: the movement step runs first, on the state held
\* before the transitions are evaluated
update_MovesFirst(e, now, dt, hour, roll) ==
    LET config == STATE_CONFIGS[e.state]
        e1 == IF config.canMove /\ config.speed > 0 /\ e.positionSynced
              THEN LET e2 == moveHorizontal(e, config.speed, dt)
                       e3 == IF e2.direction # e.direction
                             THEN Emit(e2, AnimationChange(
                                         resolveAnimation(e2, config.animation),
                                         e2.direction))
                             ELSE e2
                   IN  IF MathRound(e.x) # MathRound(e3.x)
                       THEN Emit(e3, PositionChange(e3.x, e3.y))
                       ELSE e3
              ELSE e
    IN  IF now - e1.lastTransitionEval >= TRANSITION_INTERVAL
        THEN evaluateTransitions([e1 EXCEPT !.lastTransitionEval = now],
                                 now, hour, roll)
        ELSE e1

update(e, now, dt, hour, roll) ==
    LET e1 == IF now - e.lastTransitionEval >= TRANSITION_INTERVAL
              THEN evaluateTransitions([e EXCEPT !.lastTransitionEval = now],
                                       now, hour, roll)
              ELSE e
        config == STATE_CONFIGS[e1.state]
    IN  IF config.canMove /\ config.speed > 0 /\ e1.positionSynced
        THEN LET e2 == moveHorizontal(e1, config.speed, dt)
                 e3 == IF e2.direction # e1.direction
                       THEN Emit(e2, AnimationChange(
                                   resolveAnimation(e2, config.animation),
                                   e2.direction))
                       ELSE e2
             IN  IF MathRound(e1.x) # MathRound(e3.x)
                 THEN Emit(e3, PositionChange(e3.x, e3.y))
                 ELSE e3
        ELSE e1

\* Variant of syncPosition: the sync also puts the engine in idle
syncPosition_Idles(e, px, py) ==
    [syncFromWindow(e, px, py) EXCEPT !.positionSynced = TRUE, !.state = "idle"]

\* Variant of syncPosition: x is clamped into the walkable range
syncPosition_Clamped(e, px, py) ==
    LET right == e.screenWidth - e.petSize - MARGIN
        cx    == IF px < MARGIN THEN MARGIN
                 ELSE IF px > right THEN right ELSE px
    IN  [syncFromWindow(e, cx, py) EXCEPT !.positionSynced = TRUE]

syncPosition(e, px, py) ==
    [syncFromWindow(e, px, py) EXCEPT !.positionSynced = TRUE]

\* Variant of setWanderEnabled: walk/run is left only past its minDuration
setWanderEnabled_Gated(e, enabled, now) ==
    LET e1 == [e EXCEPT !.wanderEnabled = enabled]
    IN  IF /\ ~enabled
           /\ (e1.state = "walk" \/ e1.state = "run")
           /\ now - e1.stateStartTime >= STATE_CONFIGS[e1.state].minDuration
        THEN transitionTo(e1, "idle", now)
        ELSE e1

setWanderEnabled(e, enabled, now) ==
    LET e1 == [e EXCEPT !.wanderEnabled = enabled]
    IN  IF ~enabled /\ (e1.state = "walk" \/ e1.state = "run")
        THEN transitionTo(e1, "idle", now)
        ELSE e1

setActivitySignals(e, level, rate, monitoring) ==
    [e EXCEPT !.activityLevel = level, !.switchRate = rate,
              !.isMonitoring = monitoring]

setAvailableAnimations(e, animations) ==
    [e EXCEPT !.availableAnimations = animations]

updateBounds(e, sw, sh, ps) == movementUpdateBounds(e, sw, sh, ps)

\* Variant of reset: the state-entry timestamp is kept
reset_KeepsEntryTime(e, startX, startY, now) ==
    LET e1 == syncFromWindow([e EXCEPT !.state = "idle"], startX, startY)
    IN  Emit(e1, AnimationChange("idle", e1.direction))

\* Variant of reset: the reset also unblocks movement
reset_Unblocks(e, startX, startY, now) ==
    LET e1 == syncFromWindow([e EXCEPT !.state = "idle",
                                       !.stateStartTime = now,
                                       !.positionSynced = TRUE],
                             startX, startY)
    IN  Emit(e1, AnimationChange("idle", e1.direction))

reset(e, startX, startY, now) ==
    LET e1 == syncFromWindow([e EXCEPT !.state = "idle",
                                       !.stateStartTime = now],
                             startX, startY)
    IN  Emit(e1, AnimationChange("idle", e1.direction))

----------------------------------------------------------------------------
(* behavior/signals.ts: ActivitySignalAccumulator over the sequence ts of   *)
(* retained ticks [app_name, hash_distance, was_skipped, timestamp].       *)

\* Variant of prune: a tick exactly WINDOW_MS old is evicted
prune_Strict(ts, now) ==
    LET cutoff == now - WINDOW_MS
        keep(t) == t.timestamp > cutoff
    IN  SelectSeq(ts, keep)

prune(ts, now) ==
    LET cutoff == now - WINDOW_MS
        keep(t) == t.timestamp >= cutoff
    IN  SelectSeq(ts, keep)

push(ts, tick) == prune(Append(ts, tick), tick.timestamp)

RECURSIVE SumDistance(_)
SumDistance(ts) ==
    IF ts = << >> THEN 0 ELSE Head(ts).hash_distance + SumDistance(Tail(ts))

\* Variant of signalsActivityLevel: skipped ticks are averaged too
signalsActivityLevel_CountsSkipped(ts) ==
    LET total == SumDistance(ts)
        n == Len(ts)
    IN  IF n = 0 THEN Rat(0, 1)
        ELSE IF total > n * MAX_HASH_DISTANCE THEN Rat(1, 1)
        ELSE Rat(total, n * MAX_HASH_DISTANCE)

\* Variant of signalsActivityLevel: skipped ticks count in the divisor
signalsActivityLevel_SkippedInCount(ts) ==
    LET notSkipped(t) == ~t.was_skipped
        withDistance == SelectSeq(ts, notSkipped)
        total == SumDistance(withDistance)
        n == Len(ts)
    IN  IF Len(withDistance) = 0 THEN Rat(0, 1)
        ELSE IF total > n * MAX_HASH_DISTANCE THEN Rat(1, 1)
        ELSE Rat(total, n * MAX_HASH_DISTANCE)

signalsActivityLevel(ts) ==
    LET notSkipped(t) == ~t.was_skipped
        withDistance == SelectSeq(ts, notSkipped)
        total == SumDistance(withDistance)
        n == Len(withDistance)
    IN  IF n = 0 THEN Rat(0, 1)
        ELSE IF total > n * MAX_HASH_DISTANCE THEN Rat(1, 1)
        ELSE Rat(total, n * MAX_HASH_DISTANCE)

\* Variant of signalsSwitchRate: no guard on the span
signalsSwitchRate_NoSpanGuard(ts) ==
    LET switches == Cardinality({ i \in 2..Len(ts) :
                                    ts[i].app_name # ts[i-1].app_name })
        span == ts[Len(ts)].timestamp - ts[1].timestamp
    IN  IF Len(ts) < 2 THEN Rat(0, 1)
        ELSE Rat(switches * 60000, span)

\* Variant of signalsSwitchRate: a skipped tick is passed over when the
\* adjacent pairs are compared
signalsSwitchRate_IgnoresSkipped(ts) ==
    LET switches == Cardinality({ i \in 2..Len(ts) :
                                    /\ ~ts[i].was_skipped
                                    /\ ts[i].app_name # ts[i-1].app_name })
        span == ts[Len(ts)].timestamp - ts[1].timestamp
    IN  IF Len(ts) < 2 THEN Rat(0, 1)
        ELSE IF span <= 0 THEN Rat(0, 1)
        ELSE Rat(switches * 60000, span)

signalsSwitchRate(ts) ==
    LET switches == Cardinality({ i \in 2..Len(ts) :
                                    ts[i].app_name # ts[i-1].app_name })
        span == ts[Len(ts)].timestamp - ts[1].timestamp
    IN  IF Len(ts) < 2 THEN Rat(0, 1)
        ELSE IF span <= 0 THEN Rat(0, 1)
        ELSE Rat(switches * 60000, span)

\* Variant of isActive: a tick exactly 15000 ms old still counts
signalsIsActive_Inclusive(ts, dateNow) ==
    IF Len(ts) = 0 THEN FALSE
    ELSE dateNow - ts[Len(ts)].timestamp <= 15000

signalsIsActive(ts, dateNow) ==
    IF Len(ts) = 0 THEN FALSE
    ELSE dateNow - ts[Len(ts)].timestamp < 15000

\* A tick as the listener pushes it: the payload k with its timestamp
Tick(k, t) ==
    [ app_name |-> k[1], hash_distance |-> k[2], was_skipped |-> k[3],
      timestamp |-> t ]

----------------------------------------------------------------------------
(* The engine as a record of the variables, and its write-back *)

Eng ==
    [ state |-> state, stateStartTime |-> stateStartTime,
      lastTransitionEval |-> lastTransitionEval,
      positionSynced |-> positionSynced, wanderEnabled |-> wanderEnabled,
      activityLevel |-> activityLevel, switchRate |-> switchRate,
      isMonitoring |-> isMonitoring,
      availableAnimations |-> availableAnimations,
      x |-> x, y |-> y, direction |-> direction, velocityY |-> velocityY,
      screenWidth |-> screenWidth, screenHeight |-> screenHeight,
      petSize |-> petSize, emitted |-> << >> ]

Commit(e) ==
    /\ state' = e.state
    /\ stateStartTime' = e.stateStartTime
    /\ lastTransitionEval' = e.lastTransitionEval
    /\ positionSynced' = e.positionSynced
    /\ wanderEnabled' = e.wanderEnabled
    /\ activityLevel' = e.activityLevel
    /\ switchRate' = e.switchRate
    /\ isMonitoring' = e.isMonitoring
    /\ availableAnimations' = e.availableAnimations
    /\ x' = e.x
    /\ y' = e.y
    /\ direction' = e.direction
    /\ velocityY' = e.velocityY
    /\ screenWidth' = e.screenWidth
    /\ screenHeight' = e.screenHeight
    /\ petSize' = e.petSize
    /\ emitted' = e.emitted

NoInputs == [op |-> "none", hour |-> -1, roll |-> -1, dt |-> -1, pos |-> << >>]

\* The history of walk/run entries: set by an entry into walk or run,
\* cleared by syncPosition
EntryAfter(e, isSync) ==
    IF isSync THEN FALSE
    ELSE IF e.state \in {"walk", "run"} /\ e.state # state THEN TRUE
    ELSE pendingEntry

----------------------------------------------------------------------------
(* Bounds of the engine's environment *)

MaxNow == 21000

MaxHostEvents == 2

FrameQuantum == 3 * 1000

FrameGaps == {1000, 2000, 3000, 9000, 21000}

EventDelays == {0, 2000}

FrameDts == {100}

Hours == {3, 14}

Rolls == {0, 20, 99}

Px(n) == n * PosScale

BoundsSet == { <<Px(32), Px(40), Px(16)>>, <<Px(28), Px(40), Px(16)>> }

LastTickAt == 2000

TickDelays == {1000}

TickApps == { <<"A", 10, FALSE>>, <<"B", 10, FALSE>> }

AnimationSets == { {"idle", "walk", "sleep", "run"}, {"idle"}, {} }

----------------------------------------------------------------------------
(* Operations of the engine, as the host's handlers call them *)

Update(now, dt, hour, roll, observe) ==
    /\ now > clock
    /\ \E e \in { update(Eng, now, dt, hour, roll) } :
           /\ Commit(e)
           /\ pendingEntry' = EntryAfter(e, FALSE)
    /\ clock' = now
    /\ observed' = IF observe
                   THEN [NoInputs EXCEPT !.op = "update", !.hour = hour,
                                         !.roll = roll, !.dt = dt]
                   ELSE [NoInputs EXCEPT !.op = "update"]
    /\ UNCHANGED << ticks, hostEvents >>

SetWanderEnabled(enabled, delay) ==
    /\ clock + delay <= MaxNow
    /\ hostEvents < MaxHostEvents
    /\ \E e \in { setWanderEnabled(Eng, enabled, clock + delay) } :
           /\ Commit(e)
           /\ pendingEntry' = EntryAfter(e, FALSE)
    /\ clock' = clock + delay
    /\ hostEvents' = hostEvents + 1
    /\ observed' = [NoInputs EXCEPT !.op = "setWanderEnabled"]
    /\ UNCHANGED ticks

SyncPosition(px, py) ==
    /\ \E e \in { syncPosition(Eng, px, py) } :
           /\ Commit(e)
           /\ pendingEntry' = EntryAfter(e, TRUE)
    /\ observed' = [NoInputs EXCEPT !.op = "syncPosition"]
    /\ UNCHANGED << clock, ticks, hostEvents, hostVars >>

UpdateBounds(sw, sh, ps) ==
    /\ hostEvents < MaxHostEvents
    /\ \E e \in { updateBounds(Eng, sw, sh, ps) } :
           /\ Commit(e)
           /\ pendingEntry' = EntryAfter(e, FALSE)
    /\ hostEvents' = hostEvents + 1
    /\ observed' = [NoInputs EXCEPT !.op = "updateBounds"]
    /\ UNCHANGED << clock, ticks, hostVars >>

\* The onActivityTick listener at Date.now() = clock + delay: the tick is
\* pushed with that timestamp and the accumulator's three getters are
\* passed to the engine
OnActivityTick(k, delay) ==
    /\ clock + delay <= LastTickAt
    /\ \E ts \in { push(ticks, Tick(k, clock + delay)) } :
          /\ ticks' = ts
          /\ \E e \in { setActivitySignals(
                            Eng, signalsActivityLevel(ts), signalsSwitchRate(ts),
                            signalsIsActive(ts, clock + delay)) } :
                 /\ Commit(e)
                 /\ pendingEntry' = EntryAfter(e, FALSE)
    /\ clock' = clock + delay
    /\ observed' = [NoInputs EXCEPT !.op = "onActivityTick"]
    /\ UNCHANGED << hostEvents, hostVars >>

\* loadPet with an engine, after its awaits: setAvailableAnimations, then
\* reset at the engine's own position
LoadPet(animations, delay) ==
    /\ clock + delay <= MaxNow
    /\ hostEvents < MaxHostEvents
    /\ \E e \in { reset(setAvailableAnimations(Eng, animations), x, y,
                        clock + delay) } :
           /\ Commit(e)
           /\ pendingEntry' = EntryAfter(e, FALSE)
    /\ clock' = clock + delay
    /\ hostEvents' = hostEvents + 1
    /\ observed' = [NoInputs EXCEPT !.op = "loadPet"]
    /\ UNCHANGED << ticks, hostVars >>

----------------------------------------------------------------------------
(* The engine from its construction on, driven by the host: frames (with   *)
(* the window following the position callbacks), the wander toggle, the    *)
(* pet change (loadPet), bounds updates, the activity listener (for the    *)
(* ticks of the first LastTickAt ms), and the onStateChange callback       *)
(* with the outerPosition() read it starts, whose settling is the host's   *)
(* call of syncPosition.  windowPosition is what the window system         *)
(* reports, already divided by the display scale factor; the window        *)
(* system can move the window.  Frames arrive at multiples of              *)
(* FrameQuantum; host events fall between them.                            *)

Init ==
    /\ clock = 0
    /\ state = "idle"
    /\ stateStartTime = clock
    /\ lastTransitionEval = 0
    /\ positionSynced = TRUE
    /\ wanderEnabled = TRUE
    /\ activityLevel = Rat(0, 1)
    /\ switchRate = Rat(0, 1)
    /\ isMonitoring = FALSE
    /\ availableAnimations = {"idle", "walk", "sleep", "run"}
    /\ screenWidth = Px(32) /\ screenHeight = Px(40) /\ petSize = Px(16)
    /\ x = Px(4) /\ y = Px(24)
    /\ direction = 1
    /\ velocityY = 0
    /\ ticks = << >>
    /\ emitted = << >>
    /\ observed = NoInputs
    /\ hostEvents = 0
    /\ pendingEntry = FALSE
    /\ outerPositionPending = 0
    /\ windowPosition = << x, y >>
    /\ isDragging = FALSE
    /\ dragPolls = << >>
    /\ positionUpdateFrame = 0
    /\ startDraggingPending = 0
    /\ finalPos = << >>

\* initEngine.onPositionChange over the callbacks cbs of one operation:
\* positionUpdateFrame++ (kept modulo 2, all that is read of it), and on
\* every second call appWindow.setPosition at the rounded position, which
\* the window system honours
RECURSIVE positionCallbacks(_, _, _)
positionCallbacks(cbs, frame, window) ==
    IF cbs = << >> THEN [frame |-> frame, window |-> window]
    ELSE IF Head(cbs).cb # "onPositionChange"
         THEN positionCallbacks(Tail(cbs), frame, window)
         ELSE positionCallbacks(
                  Tail(cbs), (frame + 1) % 2,
                  IF (frame + 1) % 2 = 0
                  THEN << Px(MathRound(Head(cbs).x)), Px(MathRound(Head(cbs).y)) >>
                  ELSE window)

\* initEngine.onPositionChange, run by the callbacks of the operation that
\* has just been applied
onPositionChange ==
    LET h == positionCallbacks(emitted', positionUpdateFrame, windowPosition)
    IN  /\ positionUpdateFrame' = h.frame
        /\ windowPosition' = h.window

FrameTimes ==
    { n \in { clock + d : d \in FrameGaps } :
        n % FrameQuantum = 0 /\ n <= MaxNow }

\* Positions the window system can put the window at
WindowPositions == { <<Px(4), Px(24)>>, <<Px(10), Px(24)>> }

\* initEngine.onStateChange, run by the callbacks of the operation that
\* has just been applied: one outerPosition() call when the engine needs
\* a position sync
onStateChange ==
    outerPositionPending' =
        outerPositionPending
          + ( IF /\ \E i \in 1..Len(emitted') : emitted'[i].cb = "onStateChange"
                 /\ ~positionSynced'
              THEN 1 ELSE 0 )

\* gameLoop at the rAF timestamp now: engine.update unless a drag is on
Frame(now, dt, hour, roll) ==
    /\ IF isDragging
       THEN /\ now > clock
            /\ clock' = now
            /\ emitted' = << >>
            /\ observed' = [NoInputs EXCEPT !.op = "gameLoop"]
            /\ UNCHANGED << engineVars, movementVars, ticks, hostEvents,
                            pendingEntry, outerPositionPending, windowVars >>
       ELSE /\ Update(now, dt, hour, roll, FALSE)
            /\ onStateChange
            /\ onPositionChange
    /\ UNCHANGED dragVars

OnWanderToggled ==
    \E enabled \in BOOLEAN, delay \in EventDelays :
        /\ SetWanderEnabled(enabled, delay)
        /\ onStateChange
        /\ UNCHANGED << windowVars, dragVars >>

\* outerPosition().then: syncPosition with the window's position
OuterPositionResolves ==
    /\ outerPositionPending > 0
    /\ \E e \in { syncPosition(Eng, windowPosition[1], windowPosition[2]) } :
           /\ Commit(e)
           /\ pendingEntry' = EntryAfter(e, TRUE)
    /\ outerPositionPending' = outerPositionPending - 1
    /\ observed' = [NoInputs EXCEPT !.op = "outerPosition.then"]
    /\ UNCHANGED << clock, ticks, hostEvents, windowVars, dragVars >>

\* Variant of OuterPositionRejects: the rejection is dropped
OuterPositionRejects_NoFallback ==
    /\ outerPositionPending > 0
    /\ outerPositionPending' = outerPositionPending - 1
    /\ observed' = [NoInputs EXCEPT !.op = "outerPosition.catch"]
    /\ emitted' = << >>
    /\ UNCHANGED << clock, engineVars, movementVars, ticks, hostEvents,
                    pendingEntry, windowVars, dragVars >>

\* outerPosition().catch: syncPosition with the engine's own position
OuterPositionRejects ==
    /\ outerPositionPending > 0
    /\ \E e \in { syncPosition(Eng, x, y) } :
           /\ Commit(e)
           /\ pendingEntry' = EntryAfter(e, TRUE)
    /\ outerPositionPending' = outerPositionPending - 1
    /\ observed' = [NoInputs EXCEPT !.op = "outerPosition.catch"]
    /\ UNCHANGED << clock, ticks, hostEvents, windowVars, dragVars >>

WindowMoved ==
    /\ hostEvents < MaxHostEvents
    /\ \E p \in WindowPositions \ {windowPosition} : windowPosition' = p
    /\ hostEvents' = hostEvents + 1
    /\ emitted' = << >>
    /\ observed' = [NoInputs EXCEPT !.op = "windowMoved"]
    /\ UNCHANGED << clock, engineVars, movementVars, ticks,
                    pendingEntry, outerPositionPending, positionUpdateFrame,
                    dragVars >>

\* gameLoop, with the hours and draws of this specification
NextUpdate ==
    \E now \in FrameTimes, dt \in FrameDts, hour \in Hours, roll \in Rolls :
        Frame(now, dt, hour, roll)

NextLoadPet ==
    \E a \in AnimationSets, delay \in EventDelays : LoadPet(a, delay)

NextUpdateBounds ==
    \E b \in BoundsSet : UpdateBounds(b[1], b[2], b[3])

\* The listener, for ticks that arrive up to LastTickAt
NextOnActivityTick ==
    \E k \in TickApps, delay \in TickDelays : OnActivityTick(k, delay)

Next ==
    \/ NextUpdate
    \/ OnWanderToggled
    \/ NextLoadPet
    \/ OuterPositionResolves
    \/ OuterPositionRejects
    \/ NextUpdateBounds
    \/ NextOnActivityTick
    \/ WindowMoved

Spec == Init /\ [][Next]_vars

----------------------------------------------------------------------------
(* One frame of an engine observed at a later instant of its life: the     *)
(* state was entered at StepBase, sinceEntry ms ago, and the last          *)
(* evaluation was sinceEval ms ago.  The inputs of the frame are recorded. *)

StepBase == 21000

Thresholds == {2000, 3000, 6000, 8000, 10000, 15000, 20000, 30000}

\* Entry ages that put the evaluation 9000 ms and 21000 ms into the state
ScenarioAges == {8500, 20500}

StepEntryAges ==
    {0} \cup { t - 500 : t \in Thresholds } \cup { t - 250 : t \in Thresholds }
        \cup ScenarioAges

StepEvalAges == {0, 250}

StepGaps == {250, 500}

StepHours == {0, 5, 6, 14, 21, 22, 23}

StepRolls == {0, 4, 5, 9, 10, 14, 15, 19, 20, 25, 29, 30, 99}

StepSignalSet ==
    { <<Rat(6, 10), Rat(3, 1), FALSE>>, <<Rat(39, 64), Rat(2, 1), TRUE>>,
      <<Rat(0, 1), Rat(6, 1), FALSE>>, <<Rat(1, 1), Rat(7, 1), TRUE>>,
      <<Rat(39, 64), Rat(0, 1), FALSE>>, <<Rat(0, 1), Rat(13, 2), TRUE>> }

InitStep ==
    /\ state \in BehaviorStates
    /\ wanderEnabled \in BOOLEAN
    /\ wanderEnabled \/ state \in {"idle", "sleep"}
    /\ stateStartTime = StepBase
    /\ \E age \in StepEntryAges : clock = StepBase + age
    /\ \E age \in StepEvalAges :
          /\ clock - age >= stateStartTime
          /\ lastTransitionEval = clock - age
    /\ positionSynced \in BOOLEAN
    /\ \E s \in StepSignalSet \cup { <<Rat(0, 1), Rat(0, 1), FALSE>> } :
          activityLevel = s[1] /\ switchRate = s[2] /\ isMonitoring = s[3]
    /\ availableAnimations = {"idle", "walk", "sleep", "run"}
    /\ screenWidth = Px(32) /\ screenHeight = Px(40) /\ petSize = Px(16)
    /\ x = Px(8) /\ y = Px(24)
    /\ direction = 1
    /\ velocityY = 0
    /\ ticks = << >>
    /\ emitted = << >>
    /\ observed = NoInputs
    /\ hostEvents = 0
    /\ pendingEntry = ~positionSynced
    /\ outerPositionPending = 0
    /\ windowPosition = << x, y >>
    /\ isDragging = FALSE
    /\ dragPolls = << >>
    /\ positionUpdateFrame = 0
    /\ startDraggingPending = 0
    /\ finalPos = << >>

StepUpdate ==
    /\ observed.op = "none"
    /\ \E d \in StepGaps, hour \in StepHours, roll \in StepRolls :
          Update(clock + d, 100, hour, roll, TRUE) /\ UNCHANGED hostVars

NextStep == StepUpdate

SpecStep == InitStep /\ [][NextStep]_vars

----------------------------------------------------------------------------
(* reset(x, y) called on an engine in any state, 8500 ms into that state,  *)
(* with a position other than its own, and one observed frame after it.    *)

ResetPositions == { <<Px(30), Px(20)>>, <<Px(2), Px(30)>> }

ResetDelays == {0, 2000}

ResetGaps == {500, 1500, 2000}

ResetRolls == {0, 20, 99}

ResetSignalSet == { <<Rat(0, 1), Rat(0, 1), FALSE>>, <<Rat(1, 1), Rat(7, 1), TRUE>> }

InitReset ==
    /\ InitStep
    /\ clock - StepBase = 8500
    /\ lastTransitionEval = clock
    /\ << activityLevel, switchRate, isMonitoring >> \in ResetSignalSet

EngineReset ==
    /\ observed.op = "none"
    /\ \E p \in ResetPositions, delay \in ResetDelays :
          /\ \E e \in { reset(Eng, p[1], p[2], clock + delay) } :
                 /\ Commit(e)
                 /\ pendingEntry' = EntryAfter(e, FALSE)
          /\ clock' = clock + delay
          /\ observed' = [NoInputs EXCEPT !.op = "reset", !.pos = p]
    /\ UNCHANGED << ticks, hostEvents, hostVars >>

ResetUpdate ==
    /\ observed.op = "reset"
    /\ \E d \in ResetGaps, roll \in ResetRolls :
          Update(clock + d, 100, 23, roll, TRUE) /\ UNCHANGED hostVars

NextReset ==
    \/ EngineReset
    \/ ResetUpdate

SpecReset == InitReset /\ [][NextReset]_vars

----------------------------------------------------------------------------
(* The engine under frames that keep arriving.  The engine reads its       *)
(* timestamps only through now - stateStartTime and                        *)
(* now - lastTransitionEval, and compares the first with thresholds of at  *)
(* most 30000 ms and the second with 500 ms; so after each frame the three *)
(* times are shifted back together to keep clock where it was, and the two *)
(* differences are kept up to LiveCap and TRANSITION_INTERVAL.             *)

LiveCap == 30250

LiveGaps == {2500, 5000}

LiveRolls == {0, 10, 99}

LiveSignalSet ==
    { <<Rat(0, 1), Rat(0, 1), FALSE>>, <<Rat(6, 10), Rat(3, 1), FALSE>>,
      <<Rat(1, 1), Rat(7, 1), TRUE>> }

Min(a, b) == IF a < b THEN a ELSE b

Rebase(e, now) ==
    [ e EXCEPT !.stateStartTime = clock - Min(now - @, LiveCap),
               !.lastTransitionEval = clock - Min(now - @, TRANSITION_INTERVAL) ]

InitLive ==
    /\ state \in BehaviorStates
    /\ wanderEnabled \in BOOLEAN
    /\ wanderEnabled \/ state \in {"idle", "sleep"}
    /\ clock = StepBase
    /\ stateStartTime = clock
    /\ lastTransitionEval = clock
    /\ positionSynced = TRUE
    /\ \E s \in LiveSignalSet :
          activityLevel = s[1] /\ switchRate = s[2] /\ isMonitoring = s[3]
    /\ availableAnimations = {"idle", "walk", "sleep", "run"}
    /\ screenWidth = Px(32) /\ screenHeight = Px(40) /\ petSize = Px(16)
    /\ x = Px(8) /\ y = Px(24)
    /\ direction = 1
    /\ velocityY = 0
    /\ ticks = << >>
    /\ emitted = << >>
    /\ observed = NoInputs
    /\ hostEvents = 0
    /\ pendingEntry = FALSE
    /\ outerPositionPending = 0
    /\ windowPosition = << Px(4), Px(24) >>
    /\ isDragging = FALSE
    /\ dragPolls = << >>
    /\ positionUpdateFrame = 0
    /\ startDraggingPending = 0
    /\ finalPos = << >>

LiveUpdate ==
    \E gap \in LiveGaps, roll \in LiveRolls :
        /\ \E e \in { Rebase(update(Eng, clock + gap, 100, 23, roll),
                             clock + gap) } :
               /\ Commit(e)
               /\ pendingEntry' = EntryAfter(e, FALSE)
        /\ observed' = [NoInputs EXCEPT !.op = "update", !.hour = 23,
                                             !.roll = roll, !.dt = 100]
        /\ UNCHANGED << clock, ticks, hostEvents, hostVars >>

\* syncPosition at the engine's own position, which the host calls after
\* an entry into walk or run
LiveSync ==
    /\ ~positionSynced
    /\ SyncPosition(x, y)

NextLive ==
    \/ LiveUpdate
    \/ LiveSync

SpecLive == InitLive /\ [][NextLive]_vars /\ WF_vars(LiveUpdate)

----------------------------------------------------------------------------
(* One frame's movement step: the engine is observed 9000 ms into a state  *)
(* entered at 0, at a drawn position and direction, and the frame comes    *)
(* 16 ms later with a drawn dt.  The last evaluation was either just now   *)
(* (this frame evaluates nothing) or 500 ms ago (this frame evaluates).    *)

FramePositions == {Px(4), 4400, 11900, Px(12), Px(30)}

FrameStepDts == {0, 5, 100}

FrameRolls == {0, 99}

InitFrame ==
    /\ state \in BehaviorStates
    /\ wanderEnabled \in BOOLEAN
    /\ wanderEnabled \/ state \in {"idle", "sleep"}
    /\ stateStartTime = 0
    /\ clock = 9000
    /\ lastTransitionEval \in {clock, clock - TRANSITION_INTERVAL}
    /\ positionSynced \in BOOLEAN
    /\ activityLevel = Rat(0, 1)
    /\ switchRate = Rat(0, 1)
    /\ isMonitoring = FALSE
    /\ availableAnimations \in AnimationSets
    /\ screenWidth = Px(32) /\ screenHeight = Px(40) /\ petSize = Px(16)
    /\ x \in FramePositions /\ y = Px(24)
    /\ direction \in {1, -1}
    /\ velocityY = 0
    /\ ticks = << >>
    /\ emitted = << >>
    /\ observed = NoInputs
    /\ hostEvents = 0
    /\ pendingEntry = ~positionSynced
    /\ outerPositionPending = 0
    /\ windowPosition = << Px(4), Px(24) >>
    /\ isDragging = FALSE
    /\ dragPolls = << >>
    /\ positionUpdateFrame = 0
    /\ startDraggingPending = 0
    /\ finalPos = << >>

FrameUpdate ==
    /\ observed.op = "none"
    /\ \E dt \in FrameStepDts, roll \in FrameRolls :
          Update(clock + 16, dt, 14, roll, TRUE) /\ UNCHANGED hostVars

NextFrame == FrameUpdate

SpecFrame == InitFrame /\ [][NextFrame]_vars

----------------------------------------------------------------------------
(* The MovementController alone *)

MoveSpeeds == {40, 100}

MoveDts == {10, 100}

GravityDts == {0, 50, 100}

MoveBounds ==
    { <<Px(32), Px(40), Px(16)>>, <<Px(26), Px(36), Px(16)>>,
      <<Px(24), Px(40), Px(16)>>, <<Px(20), Px(40), Px(16)>> }

MovePositions ==
    { <<Px(4), Px(24)>>, <<7700, Px(10)>>, <<Px(30), Px(30)>>, <<0 - Px(5), 0>> }

Movement ==
    [ x |-> x, y |-> y, direction |-> direction, velocityY |-> velocityY,
      screenWidth |-> screenWidth, screenHeight |-> screenHeight,
      petSize |-> petSize ]

CommitMovementAt(m, op, dt) ==
    /\ x' = m.x
    /\ y' = m.y
    /\ direction' = m.direction
    /\ velocityY' = m.velocityY
    /\ screenWidth' = m.screenWidth
    /\ screenHeight' = m.screenHeight
    /\ petSize' = m.petSize
    /\ observed' = [NoInputs EXCEPT !.op = op, !.dt = dt]
    /\ UNCHANGED << clock, engineVars, ticks, emitted, hostEvents, pendingEntry,
                    hostVars >>

CommitMovement(m, op) == CommitMovementAt(m, op, -1)

InitMove ==
    /\ clock = 0
    /\ state = "idle"
    /\ stateStartTime = 0
    /\ lastTransitionEval = 0
    /\ positionSynced = TRUE
    /\ wanderEnabled = TRUE
    /\ activityLevel = Rat(0, 1)
    /\ switchRate = Rat(0, 1)
    /\ isMonitoring = FALSE
    /\ availableAnimations = {"idle"}
    /\ \E b \in MoveBounds :
          screenWidth = b[1] /\ screenHeight = b[2] /\ petSize = b[3]
    /\ \E p \in MovePositions : x = p[1] /\ y = p[2]
    /\ direction = 1
    /\ velocityY = 0
    /\ ticks = << >>
    /\ emitted = << >>
    /\ observed = NoInputs
    /\ hostEvents = 0
    /\ pendingEntry = FALSE
    /\ outerPositionPending = 0
    /\ windowPosition = << Px(4), Px(24) >>
    /\ isDragging = FALSE
    /\ dragPolls = << >>
    /\ positionUpdateFrame = 0
    /\ startDraggingPending = 0
    /\ finalPos = << >>

MoveHorizontal ==
    \E speed \in MoveSpeeds, dt \in MoveDts :
          \E m \in { moveHorizontal(Movement, speed, dt) } :
              CommitMovement(m, "moveHorizontal")

ApplyGravity ==
    \E dt \in GravityDts :
          \E m \in { applyGravity(Movement, dt) } :
              CommitMovementAt(m, IF applyGravityResult(Movement, dt)
                                  THEN "applyGravity.true"
                                  ELSE "applyGravity.false", dt)

StartFall ==
    CommitMovement(startFall(Movement), "startFall")

ClampToGround ==
    CommitMovement(clampToGround(Movement), "clampToGround")

SyncFromWindow ==
    \E p \in MovePositions :
          CommitMovement(syncFromWindow(Movement, p[1], p[2]), "syncFromWindow")

MovementUpdateBounds ==
    \E b \in MoveBounds :
          CommitMovement(movementUpdateBounds(Movement, b[1], b[2], b[3]),
                         "updateBounds")

NextMove ==
    \/ MoveHorizontal
    \/ ApplyGravity
    \/ StartFall
    \/ ClampToGround
    \/ SyncFromWindow
    \/ MovementUpdateBounds

SpecMove == InitMove /\ [][NextMove]_vars

----------------------------------------------------------------------------
(* The MovementController falling: bounds tall enough for the velocity to  *)
(* reach its cap before the ground, from a position at the top of the      *)
(* screen or one below the ground line                                     *)

FallPositions == { <<Px(4), 0>>, <<Px(4), Px(390)>> }

InitFall ==
    /\ clock = 0
    /\ state = "idle"
    /\ stateStartTime = 0
    /\ lastTransitionEval = 0
    /\ positionSynced = TRUE
    /\ wanderEnabled = TRUE
    /\ activityLevel = Rat(0, 1)
    /\ switchRate = Rat(0, 1)
    /\ isMonitoring = FALSE
    /\ availableAnimations = {"idle"}
    /\ screenWidth = Px(32) /\ screenHeight = Px(400) /\ petSize = Px(16)
    /\ \E p \in FallPositions : x = p[1] /\ y = p[2]
    /\ direction = 1
    /\ velocityY = 0
    /\ ticks = << >>
    /\ emitted = << >>
    /\ observed = NoInputs
    /\ hostEvents = 0
    /\ pendingEntry = FALSE
    /\ outerPositionPending = 0
    /\ windowPosition = << Px(4), Px(24) >>
    /\ isDragging = FALSE
    /\ dragPolls = << >>
    /\ positionUpdateFrame = 0
    /\ startDraggingPending = 0
    /\ finalPos = << >>

FallSync ==
    \E p \in FallPositions :
          CommitMovement(syncFromWindow(Movement, p[1], p[2]), "syncFromWindow")

NextFall ==
    \/ ApplyGravity
    \/ StartFall
    \/ FallSync

SpecFall == InitFall /\ [][NextFall]_vars

----------------------------------------------------------------------------
(* The ActivitySignalAccumulator alone *)

MaxTicks == 3

TickTimes == {0, 1000, 2000, 61000, 61001}

TickKinds ==
    { <<"A", 10, FALSE>>, <<"A", 20, FALSE>>, <<"B", 30, FALSE>>,
      <<"B", 64, TRUE>>, <<"A", 64, FALSE>>, <<"B", 80, FALSE>> }

InitSignals ==
    /\ clock = 0
    /\ state = "idle"
    /\ stateStartTime = 0
    /\ lastTransitionEval = 0
    /\ positionSynced = TRUE
    /\ wanderEnabled = TRUE
    /\ activityLevel = Rat(0, 1)
    /\ switchRate = Rat(0, 1)
    /\ isMonitoring = FALSE
    /\ availableAnimations = {"idle"}
    /\ screenWidth = Px(32) /\ screenHeight = Px(40) /\ petSize = Px(16)
    /\ x = Px(4) /\ y = Px(24)
    /\ direction = 1
    /\ velocityY = 0
    /\ ticks = << >>
    /\ emitted = << >>
    /\ observed = NoInputs
    /\ hostEvents = 0
    /\ pendingEntry = FALSE
    /\ outerPositionPending = 0
    /\ windowPosition = << x, y >>
    /\ isDragging = FALSE
    /\ dragPolls = << >>
    /\ positionUpdateFrame = 0
    /\ startDraggingPending = 0
    /\ finalPos = << >>

\* clock keeps the timestamp of the tick pushed last
Push(k, t) ==
    /\ Len(ticks) < MaxTicks
    /\ ticks' = push(ticks, Tick(k, t))
    /\ clock' = t
    /\ observed' = [NoInputs EXCEPT !.op = "push"]
    /\ UNCHANGED << engineVars, movementVars, emitted, hostEvents,
                    pendingEntry, hostVars >>

NextSignals == \E k \in TickKinds, t \in TickTimes : Push(k, t)

SpecSignals == InitSignals /\ [][NextSignals]_vars

----------------------------------------------------------------------------
(* The frame loop, the wander toggle and the onStateChange callback with   *)
(* its outerPosition() promise, under the assumption that every such       *)
(* promise settles.                                                        *)

HostRolls == {0, 99}

HostHours == {14}

GameLoop ==
    \E now \in FrameTimes, dt \in FrameDts, hour \in HostHours, roll \in HostRolls :
        Frame(now, dt, hour, roll)

InitHost == Init

NextHost ==
    \/ GameLoop
    \/ OnWanderToggled
    \/ OuterPositionResolves
    \/ OuterPositionRejects
    \/ WindowMoved

OuterPositionSettles == OuterPositionResolves \/ OuterPositionRejects

SpecHost == InitHost /\ [][NextHost]_vars /\ WF_vars(OuterPositionSettles)

----------------------------------------------------------------------------
(* The host's drag: onPointerMove past the drag threshold sets isDragging  *)
(* and awaits startDragging(); when that resolves it awaits                *)
(* waitForDragEnd(), whose loop awaits a 120 ms timer and then a read of   *)
(* outerPosition(), turn after turn, and returns a position; onPointerMove *)
(* resumes in a later microtask of the same task, clears isDragging and    *)
(* calls syncPosition with the returned position.  Promises that settle in *)
(* that task run their callbacks before it resumes; frames, timers,        *)
(* pointer events and window moves are tasks of their own.  A pointer      *)
(* press and move can                                                      *)
(* come at any await, so a second drag can start while the first is still  *)
(* being polled.  Frames here are 21000 ms apart.                          *)

DragPositions == { <<Px(4), Px(24)>>, <<4500, Px(24)>>, <<4500, Px(25)>> }

DragFrameGap == 21 * 1000

Abs(n) == IF n < 0 THEN 0 - n ELSE n

RemoveAt(seq, i) == SubSeq(seq, 1, i - 1) \o SubSeq(seq, i + 1, Len(seq))

\* waitForDragEnd before its first sample: lastX and lastY are NaN
\* (sampled is false), stableCount is 0, and the call waits for its 120 ms
\* timer (reading is false: outerPosition() has not been called)
NoSample ==
    [sampled |-> FALSE, lastX |-> 0, lastY |-> 0, stableCount |-> 0,
     reading |-> FALSE]

\* The body of the loop for a position read that succeeded, up to the
\* await of the next 120 ms timer
pollSample(p, px, py) ==
    [ reading     |-> FALSE,
      sampled     |-> TRUE,
      lastX       |-> px,
      lastY       |-> py,
      stableCount |-> IF /\ p.sampled
                         /\ Abs(px - p.lastX) < PosScale
                         /\ Abs(py - p.lastY) < PosScale
                      THEN p.stableCount + 1
                      ELSE 0 ]

\* Variant of pollContinues: one agreement of two samples ends the loop
pollContinues_OneAgreement(p) == p.stableCount < 1

\* The condition of the loop
pollContinues(p) == p.stableCount < 2

\* The value waitForDragEnd returns, read at its return statement: the
\* last sample, or the engine's position at that moment when there was none
pollResult(p) == IF p.sampled THEN << p.lastX, p.lastY >> ELSE << x, y >>

\* A value waitForDragEnd has returned, with the way its loop ended
Returned(pos, op) == [x |-> pos[1], y |-> pos[2], op |-> op]

\* onPointerDown, then onPointerMove past DRAG_THRESHOLD, up to the await
\* of appWindow.startDragging().  A pointer event is a task of its own: no
\* continuation of an earlier activation is waiting when it runs
OnPointerMove ==
    /\ hostEvents < MaxHostEvents
    /\ finalPos = << >>
    /\ isDragging' = TRUE
    /\ startDraggingPending' = startDraggingPending + 1
    /\ hostEvents' = hostEvents + 1
    /\ emitted' = << >>
    /\ observed' = [NoInputs EXCEPT !.op = "onPointerMove"]
    /\ UNCHANGED << clock, engineVars, movementVars, ticks, pendingEntry,
                    outerPositionPending, windowVars, dragPolls, finalPos >>

\* startDragging() resolves: onPointerMove goes on to call waitForDragEnd
StartDraggingResolves ==
    /\ startDraggingPending > 0
    /\ startDraggingPending' = startDraggingPending - 1
    /\ dragPolls' = Append(dragPolls, NoSample)
    /\ emitted' = << >>
    /\ observed' = [NoInputs EXCEPT !.op = "startDragging.then"]
    /\ UNCHANGED << clock, engineVars, movementVars, ticks, hostEvents,
                    pendingEntry, outerPositionPending, windowVars,
                    isDragging, finalPos >>

\* startDragging() rejects: onPointerMove throws at the await, with
\* isDragging left as it is and no waitForDragEnd
StartDraggingRejects ==
    /\ startDraggingPending > 0
    /\ startDraggingPending' = startDraggingPending - 1
    /\ emitted' = << >>
    /\ observed' = [NoInputs EXCEPT !.op = "startDragging.catch"]
    /\ UNCHANGED << clock, engineVars, movementVars, ticks, hostEvents,
                    pendingEntry, outerPositionPending, windowVars,
                    isDragging, dragPolls, finalPos >>

\* The i-th waitForDragEnd leaves its loop and returns pos: its promise is
\* resolved and the continuation of the onPointerMove that awaits it is
\* queued
WaitForDragEndReturns(i, pos, op) ==
    /\ dragPolls' = RemoveAt(dragPolls, i)
    /\ finalPos' = Append(finalPos, Returned(pos, op))
    /\ emitted' = << >>
    /\ observed' = [NoInputs EXCEPT !.op = op]
    /\ UNCHANGED << clock, engineVars, movementVars, ticks, hostEvents,
                    pendingEntry, outerPositionPending, windowVars,
                    isDragging, startDraggingPending >>

\* The 120 ms timer of the i-th waitForDragEnd fires and the loop calls
\* outerPosition().  A timer callback is a task of its own: no
\* continuation is waiting when it runs
PollTimerFires(i) ==
    /\ i \in 1..Len(dragPolls)
    /\ ~dragPolls[i].reading
    /\ finalPos = << >>
    /\ dragPolls' = [dragPolls EXCEPT ![i].reading = TRUE]
    /\ emitted' = << >>
    /\ observed' = [NoInputs EXCEPT !.op = "waitForDragEnd.timer"]
    /\ UNCHANGED << clock, engineVars, movementVars, ticks, hostEvents,
                    pendingEntry, outerPositionPending, windowVars,
                    isDragging, startDraggingPending, finalPos >>

\* The outerPosition() read of the i-th waitForDragEnd resolves: the rest
\* of the turn of the loop, up to the next timer or to the return
PollReads(i) ==
    /\ i \in 1..Len(dragPolls)
    /\ dragPolls[i].reading
    /\ \E p \in { pollSample(dragPolls[i], windowPosition[1], windowPosition[2]) } :
          IF pollContinues(p)
          THEN /\ dragPolls' = [dragPolls EXCEPT ![i] = p]
               /\ emitted' = << >>
               /\ observed' = [NoInputs EXCEPT !.op = "waitForDragEnd.sample"]
               /\ UNCHANGED << clock, engineVars, movementVars, ticks,
                               hostEvents, pendingEntry, outerPositionPending,
                               windowVars, isDragging, startDraggingPending,
                               finalPos >>
          ELSE WaitForDragEndReturns(i, pollResult(p), "waitForDragEnd.return")

\* The outerPosition() read of the i-th waitForDragEnd rejects: break,
\* return
PollReadFails(i) ==
    /\ i \in 1..Len(dragPolls)
    /\ dragPolls[i].reading
    /\ WaitForDragEndReturns(i, pollResult(dragPolls[i]), "waitForDragEnd.catch")

\* onPointerMove after `await waitForDragEnd()`, a microtask queued by the
\* return: isDragging = false and syncPosition(finalPos)
OnPointerMoveResumes ==
    /\ finalPos # << >>
    /\ isDragging' = FALSE
    /\ \E e \in { syncPosition(Eng, Head(finalPos).x, Head(finalPos).y) } :
           /\ Commit(e)
           /\ pendingEntry' = EntryAfter(e, TRUE)
    /\ finalPos' = Tail(finalPos)
    /\ observed' = [NoInputs EXCEPT !.op = "onPointerMove.resume"]
    /\ UNCHANGED << clock, ticks, hostEvents, outerPositionPending,
                    windowVars, startDraggingPending, dragPolls >>

\* The window moves under the drag
WindowDragged ==
    /\ startDraggingPending > 0 \/ dragPolls # << >>
    /\ finalPos = << >>
    /\ \E p \in DragPositions \ {windowPosition} : windowPosition' = p
    /\ emitted' = << >>
    /\ observed' = [NoInputs EXCEPT !.op = "windowMoved"]
    /\ UNCHANGED << clock, engineVars, movementVars, ticks, hostEvents,
                    pendingEntry, outerPositionPending, positionUpdateFrame,
                    dragVars >>

\* A frame is a task of its own: no continuation is waiting when it runs
DragGameLoop ==
    \E dt \in FrameDts, hour \in HostHours, roll \in HostRolls :
        /\ clock + DragFrameGap <= MaxNow
        /\ finalPos = << >>
        /\ Frame(clock + DragFrameGap, dt, hour, roll)

DragPollTimerFires == \E i \in 1..MaxHostEvents : PollTimerFires(i)

DragPollReads == \E i \in 1..MaxHostEvents : PollReads(i)

DragPollReadFails == \E i \in 1..MaxHostEvents : PollReadFails(i)

InitDrag == InitHost

NextDrag ==
    \/ DragGameLoop
    \/ OnPointerMove
    \/ StartDraggingResolves
    \/ StartDraggingRejects
    \/ DragPollTimerFires
    \/ DragPollReads
    \/ DragPollReadFails
    \/ OnPointerMoveResumes
    \/ WindowDragged
    \/ OuterPositionResolves
    \/ OuterPositionRejects

SpecDrag == InitDrag /\ [][NextDrag]_vars

----------------------------------------------------------------------------
(* Properties *)

\* The minimum durations and nominal animations as the specification
\* states them
MinDurationOf == [idle |-> 2000, walk |-> 3000, sleep |-> 10000, run |-> 2000]

AnimationNames == { emitted[i].animation :
                      i \in { j \in 1..Len(emitted) :
                                emitted[j].cb = "onAnimationChange" } }

PositionCallbacks(cbs) ==
    { i \in 1..Len(cbs) : cbs[i].cb = "onPositionChange" }

RightEdge == screenWidth - petSize - Px(4)

\* C1: an update() made while now - stateStartTime is below the current
\* state's minimum duration changes neither the state nor the state-entry
\* timestamp, whatever the signals, the hour and the random draw.
C1_MinDurationGate ==
    [][ ( /\ observed'.op = "update"
          /\ clock' - stateStartTime < MinDurationOf[state] )
        => ( state' = state /\ stateStartTime' = stateStartTime ) ]_vars

\* An evaluation ran in idle below 2000 ms although the idle -> run rule
\* held
C1_Witness ==
    /\ observed.op = "update"
    /\ state = "idle"
    /\ lastTransitionEval = clock
    /\ clock - stateStartTime = 1750
    /\ RatGT(switchRate, 6, 1)

\* C2: whenever wander is disabled the state is neither walk nor run.
C2_WanderDisabledNoMovement ==
    ~wanderEnabled => state \notin {"walk", "run"}

\* With wander disabled and a switch rate above 6, an evaluation in idle
\* between 2000 and 8000 ms matched the idle -> run rule and nothing
\* else: the entry into run was vetoed
C2_Witness ==
    /\ observed.op = "update"
    /\ ~wanderEnabled
    /\ RatGT(switchRate, 6, 1)
    /\ state = "idle"
    /\ lastTransitionEval = clock
    /\ clock - stateStartTime = 3000
    /\ emitted = << >>

\* C3: from an entry into walk or run until the next syncPosition, no
\* update() changes the position or the direction or emits a
\* position-change callback.
C3_NoMovementBeforeSync ==
    [][ ( observed'.op = "update" /\ pendingEntry' )
        => ( /\ x' = x
             /\ y' = y
             /\ direction' = direction
             /\ PositionCallbacks(emitted') = {} ) ]_vars

\* An update ran in run after the entry and before any syncPosition
C3_Witness ==
    /\ observed.op = "update"
    /\ pendingEntry
    /\ state = "run"
    /\ clock > stateStartTime
    /\ outerPositionPending > 0

\* C4: for bounds with screenWidth - petSize - 4 >= 4, after every
\* moveHorizontal call x lies in [4, screenWidth - petSize - 4].
C4_MoveStaysInside ==
    ( observed.op = "moveHorizontal" /\ RightEdge >= Px(4) )
    => ( Px(4) <= x /\ x <= RightEdge )

\* moveHorizontal has clamped x at the right edge of a non-degenerate range
C4_Witness ==
    /\ observed.op = "moveHorizontal"
    /\ RightEdge > Px(4)
    /\ x = RightEdge
    /\ direction = -1

\* C5: the direction changes only in an update whose moveHorizontal clamps
\* x to an edge margin, to -1 at the right edge and to +1 at the left edge;
\* no other operation changes it.
C5_DirectionOnlyAtEdges ==
    [][ direction' # direction
        => ( /\ observed'.op = "update"
             /\ state' \in {"walk", "run"}
             /\ \/ direction' = -1 /\ x' = screenWidth' - petSize' - Px(4)
                \/ direction' = 1 /\ x' = Px(4) ) ]_vars

\* A movement step has just turned the pet around at the right edge
C5_Witness ==
    /\ observed.op = "update"
    /\ direction = -1
    /\ x = RightEdge
    /\ \E i \in 1..Len(emitted) :
          emitted[i] = AnimationChange(resolveAnimation(Eng, state), -1)
    /\ \E i \in 1..Len(emitted) : emitted[i].cb = "onPositionChange"

\* The transition table as the specification states it: the target of
\* the first rule that holds, "none" when no rule holds
RefTarget(st, t, level, rate, hour, roll) ==
    CASE st = "idle" ->
           IF t > 8000 /\ roll < 15 THEN "walk"
           ELSE IF t > 20000 /\ roll < (IF hour >= 22 \/ hour < 6 THEN 30 ELSE 10)
                THEN "sleep"
           ELSE IF rate.num > 6 * rate.den THEN "run"
           ELSE "none"
      [] st = "walk" ->
           IF t > 8000 /\ roll < 20 THEN "idle" ELSE "none"
      [] st = "sleep" ->
           IF 10 * level.num > 6 * level.den /\ t > 15000 THEN "idle"
           ELSE IF t > 30000 /\ roll < 5 THEN "idle"
           ELSE "none"
      [] st = "run" ->
           IF rate.num < 3 * rate.den /\ t > 3000 THEN "walk"
           ELSE IF t > 6000 /\ roll < 20 THEN "idle"
           ELSE "none"

\* C6: with wander enabled, an evaluation past minDuration moves to the
\* target of the first rule of the current state that holds, in table
\* order, and leaves state and entry timestamp unchanged when none holds.
C6_FirstMatchingRule ==
    [][ ( /\ observed'.op = "update"
          /\ wanderEnabled
          /\ clock' - lastTransitionEval >= 500
          /\ clock' - stateStartTime >= MinDurationOf[state] )
        => LET target == RefTarget(state, clock' - stateStartTime,
                                   activityLevel, switchRate,
                                   observed'.hour, observed'.roll)
           IN  IF target = "none"
               THEN state' = state /\ stateStartTime' = stateStartTime
               ELSE state' = target /\ stateStartTime' = clock' ]_vars

\* An evaluation in idle in which the walk rule failed on the draw and the
\* sleep rule, second in the table, fired although the run rule held too
C6_Witness ==
    /\ observed.op = "update"
    /\ wanderEnabled
    /\ state = "sleep"
    /\ stateStartTime = clock
    /\ observed.roll >= 15
    /\ RatGT(switchRate, 6, 1)

\* C7 as stated: every animation name passed to onAnimationChange is in the
\* available set, for any available set.
C7_EmittedAnimationAvailable ==
    AnimationNames \subseteq availableAnimations

\* C7 as amended: when "idle" is in the available set, every animation
\* name passed to onAnimationChange is in the available set.
C7_EmittedAnimationAvailableOrIdle ==
    "idle" \in availableAnimations => AnimationNames \subseteq availableAnimations

\* The pet has no walk animation and the entry into walk emitted "idle"
C7_Witness ==
    /\ "idle" \in availableAnimations
    /\ "walk" \notin availableAnimations
    /\ Len(emitted) = 2
    /\ emitted[1] = AnimationChange("idle", direction)
    /\ emitted[2] = StateChange("walk")

\* C8: a transition into a state emits the state's nominal animation when
\* it is in the available set, and "idle" when it is not.
C8_TransitionAnimation ==
    \A i \in 1..Len(emitted) :
        emitted[i].cb = "onStateChange"
        => /\ i > 1
           /\ emitted[i-1].cb = "onAnimationChange"
           /\ emitted[i-1].animation =
                 IF emitted[i].state \in availableAnimations
                 THEN emitted[i].state
                 ELSE "idle"

\* The entry into sleep of a pet without a sleep animation emitted "idle"
C8_Witness ==
    /\ observed.op = "update"
    /\ state = "sleep"
    /\ "sleep" \notin availableAnimations
    /\ Len(emitted) = 2
    /\ emitted[1].animation = "idle"
    /\ emitted[2] = StateChange("sleep")

\* C9: after push(tick) every retained tick is at most 60000 ms older than
\* the pushed tick, and exactly the earlier ticks that are at most 60000 ms
\* older are kept.
C9_WindowAfterPush ==
    [][ observed'.op = "push"
        => LET n == Len(ticks')
               pushed == ticks'[n].timestamp
           IN  /\ n >= 1
               /\ \A i \in 1..n : ticks'[i].timestamp >= pushed - 60000
               /\ n = 1 + Cardinality({ i \in 1..Len(ticks) :
                                          ticks[i].timestamp >= pushed - 60000 }) ]_vars

\* A tick exactly 60000 ms older than the pushed one is retained, after an
\* older one was evicted
C9_Witness ==
    /\ observed.op = "push"
    /\ Len(ticks) = 2
    /\ ticks[1].timestamp = 1000
    /\ ticks[2].timestamp = 61000

\* C10: activityLevel is in [0, 1], and it is 0 when the window is empty
\* or every retained tick is skipped.
C10_ActivityLevelRange ==
    LET a == signalsActivityLevel(ticks)
    IN  /\ a.den > 0
        /\ 0 <= a.num
        /\ a.num <= a.den
        /\ (\A i \in 1..Len(ticks) : ticks[i].was_skipped) => a.num = 0

\* Only skipped ticks are retained, with a nonzero hash_distance
C10_Witness ==
    /\ Len(ticks) >= 2
    /\ \A i \in 1..Len(ticks) : ticks[i].was_skipped /\ ticks[i].hash_distance > 0

\* The sum of hash_distance over the ticks of ts at the indices I
RECURSIVE DistanceOver(_, _)
DistanceOver(ts, I) ==
    IF I = {} THEN 0
    ELSE LET i == CHOOSE j \in I : TRUE
         IN  ts[i].hash_distance + DistanceOver(ts, I \ {i})

NonSkipped == { i \in 1..Len(ticks) : ~ticks[i].was_skipped }

\* C11: when some retained tick is not skipped, activityLevel equals
\* min(1, sum / count / 64) with sum and count taken over the retained
\* ticks that are not skipped; skipped ticks enter neither.
C11_ActivityLevelValue ==
    LET a == signalsActivityLevel(ticks)
        sum == DistanceOver(ticks, NonSkipped)
        count == Cardinality(NonSkipped)
    IN  count > 0
        => IF sum >= count * 64
           THEN a.num = a.den
           ELSE a.num * (count * 64) = sum * a.den

\* Distances 10 and 30 with a skipped tick of distance 64 between them:
\* the level is 40/2/64
C11_Witness ==
    /\ observed.op = "push"
    /\ Len(ticks) = 3
    /\ ticks[1].hash_distance = 10 /\ ~ticks[1].was_skipped
    /\ ticks[2].hash_distance = 64 /\ ticks[2].was_skipped
    /\ ticks[3].hash_distance = 30 /\ ~ticks[3].was_skipped
    /\ signalsActivityLevel(ticks).num * 16 = 5 * signalsActivityLevel(ticks).den

\* C12: switchRate is never negative, whatever the order of the pushed
\* timestamps, and it is 0 when fewer than 2 ticks are retained or the
\* last and the first retained timestamps are equal.
C12_SwitchRateNonNegative ==
    LET r == signalsSwitchRate(ticks)
        n == Len(ticks)
    IN  /\ r.den > 0
        /\ r.num >= 0
        /\ n < 2 => r.num = 0
        /\ (n >= 2 /\ ticks[n].timestamp = ticks[1].timestamp) => r.num = 0

\* The last retained tick is older than the first and the app changed
C12_Witness ==
    /\ observed.op = "push"
    /\ Len(ticks) >= 2
    /\ ticks[Len(ticks)].timestamp < ticks[1].timestamp
    /\ ticks[Len(ticks)].app_name # ticks[1].app_name
    /\ \E i \in 2..Len(ticks) : ticks[i].app_name # ticks[i-1].app_name

\* The number of adjacent pairs of ts, in order, whose app_name differs
RECURSIVE Switches(_)
Switches(ts) ==
    IF Len(ts) < 2 THEN 0
    ELSE (IF ts[1].app_name # ts[2].app_name THEN 1 ELSE 0) + Switches(Tail(ts))

\* C13: with at least 2 retained ticks and last.timestamp > first.timestamp,
\* switchRate equals switches / (last.timestamp - first.timestamp) * 60000,
\* the switches counted over all adjacent retained pairs, skipped or not.
\* (r.num / r.den = switches * 60000 / span, with the factor 60000 taken
\* out of r.num to keep the products small.)
C13_SwitchRateValue ==
    LET r == signalsSwitchRate(ticks)
        n == Len(ticks)
        span == ticks[n].timestamp - ticks[1].timestamp
    IN  (n >= 2 /\ span > 0)
        => /\ r.num % 60000 = 0
           /\ (r.num \div 60000) * span = Switches(ticks) * r.den

\* Apps A, B, A at 0, 1000, 2000 with the B tick skipped: two switches,
\* rate 60
C13_Witness ==
    /\ observed.op = "push"
    /\ Len(ticks) = 3
    /\ ticks[1].app_name = "A" /\ ticks[1].timestamp = 0
    /\ ticks[2].app_name = "B" /\ ticks[2].was_skipped /\ ticks[2].timestamp = 1000
    /\ ticks[3].app_name = "A" /\ ticks[3].timestamp = 2000
    /\ signalsSwitchRate(ticks).num = 60 * signalsSwitchRate(ticks).den

\* C14: with wander enabled, an evaluation in idle with time-in-state above
\* 8000 ms and a draw below 0.15 enters walk, at every hour and for every
\* activityLevel and switchRate.
C14_IdleToWalk ==
    [][ ( /\ observed'.op = "update"
          /\ state = "idle"
          /\ wanderEnabled
          /\ clock' - lastTransitionEval >= 500
          /\ clock' - stateStartTime > 8000
          /\ observed'.roll < 15 )
        => ( state' = "walk" /\ stateStartTime' = clock' ) ]_vars

\* Idle for 9000 ms, draw 0.10, at night and with a switchRate above 6:
\* walk was entered although the run rule held too
C14_Witness ==
    /\ observed.op = "update"
    /\ state = "walk"
    /\ stateStartTime = clock
    /\ clock = StepBase + 9000
    /\ observed.roll = 10
    /\ observed.hour = 23
    /\ RatGT(switchRate, 6, 1)

\* C15 as stated: an evaluation in idle at 21000 ms with draw 0.25 enters
\* sleep at hour 23; at hour 14 it does not, and the result is run when
\* switchRate > 6 and idle otherwise.
C15_SleepByHour ==
    [][ ( /\ observed'.op = "update"
          /\ state = "idle"
          /\ clock' - lastTransitionEval >= 500
          /\ clock' - stateStartTime = 21000
          /\ observed'.roll = 25 )
        => ( /\ observed'.hour = 23 => state' = "sleep"
             /\ observed'.hour = 14 =>
                   state' = IF RatGT(switchRate, 6, 1) THEN "run" ELSE "idle" ) ]_vars

\* C15 as amended: as above, but at hour 14 the result is run only when
\* switchRate > 6 and wander is enabled, and idle otherwise.
C15_SleepByHourWander ==
    [][ ( /\ observed'.op = "update"
          /\ state = "idle"
          /\ clock' - lastTransitionEval >= 500
          /\ clock' - stateStartTime = 21000
          /\ observed'.roll = 25 )
        => ( /\ observed'.hour = 23 => state' = "sleep"
             /\ observed'.hour = 14 =>
                   state' = IF RatGT(switchRate, 6, 1) /\ wanderEnabled
                            THEN "run" ELSE "idle" ) ]_vars

\* Hour 14, draw 0.25, 21000 ms in idle: the sleep rule failed and the run
\* rule, next in the table, fired
C15_Witness ==
    /\ observed.op = "update"
    /\ observed.hour = 14
    /\ observed.roll = 25
    /\ state = "run"
    /\ stateStartTime = clock
    /\ clock = StepBase + 21000

\* C17: while wander is disabled, an evaluation whose first matching rule
\* targets walk or run keeps state, state-entry timestamp and
\* position-sync flag and emits no callback.
C17_VetoSuppresses ==
    [][ ( /\ observed'.op = "update"
          /\ ~wanderEnabled
          /\ clock' - lastTransitionEval >= 500
          /\ clock' - stateStartTime >= MinDurationOf[state]
          /\ RefTarget(state, clock' - stateStartTime, activityLevel,
                       switchRate, observed'.hour, observed'.roll)
                 \in {"walk", "run"} )
        => ( /\ state' = state
             /\ stateStartTime' = stateStartTime
             /\ positionSynced' = positionSynced
             /\ emitted' = << >> ) ]_vars

\* Wander disabled, idle past 8000 ms with a switchRate above 6 and a draw
\* that fails the walk and sleep rules: the evaluation ran and the run
\* rule was vetoed
C17_Witness ==
    /\ observed.op = "update"
    /\ ~wanderEnabled
    /\ state = "idle"
    /\ lastTransitionEval = clock
    /\ clock - stateStartTime > 8000
    /\ observed.roll = 99
    /\ RatGT(switchRate, 6, 1)
    /\ emitted = << >>

\* C16: setWanderEnabled(false) in walk or run puts the engine in idle at
\* the instant of the call, whatever the time spent in the state;
\* setWanderEnabled(false) in idle or sleep and setWanderEnabled(true) in
\* any state keep the state and the state-entry timestamp.
C16_DisableForcesIdle ==
    [][ observed'.op = "setWanderEnabled"
        => IF ~wanderEnabled' /\ state \in {"walk", "run"}
           THEN state' = "idle" /\ stateStartTime' = clock'
           ELSE state' = state /\ stateStartTime' = stateStartTime ]_vars

\* No frame before the one at 9000 ms can enter walk, so the state left
\* here at 3000 ms was run, entered by the frame at 3000 ms: it was left
\* at time-in-state 0, below its minDuration and with no update in between
C16_Witness ==
    /\ observed.op = "setWanderEnabled"
    /\ ~wanderEnabled
    /\ clock = 3000
    /\ lastTransitionEval = 3000
    /\ RatGT(switchRate, 6, 1)
    /\ state = "idle"
    /\ stateStartTime = 3000
    /\ ~positionSynced
    /\ emitted = << AnimationChange(resolveAnimation(Eng, "idle"), direction),
                    StateChange("idle") >>

\* C18: after reset(x, y) from any state the state is idle, the position
\* is (x, y) and the state-entry timestamp is the instant of the reset; an
\* update less than 2000 ms after the reset keeps the state and the
\* timestamp.
C18_ResetRestartsIdle ==
    [][ /\ observed'.op = "reset"
           => ( /\ state' = "idle"
                /\ stateStartTime' = clock'
                /\ << x', y' >> = observed'.pos )
        /\ ( observed.op = "reset" /\ observed'.op = "update"
             /\ clock' - clock < 2000 )
           => ( state' = "idle" /\ stateStartTime' = stateStartTime ) ]_vars

\* An evaluation 1500 ms after a reset to (30, 20), with wander enabled and
\* a switch rate above 6: the idle -> run rule holds, and the engine
\* stayed in idle at the position of the reset
C18_Witness ==
    /\ observed.op = "update"
    /\ state = "idle"
    /\ wanderEnabled
    /\ RatGT(switchRate, 6, 1)
    /\ lastTransitionEval = clock
    /\ clock - stateStartTime = 1500
    /\ << x, y >> = << Px(30), Px(20) >>
    /\ emitted = << >>

StateChangeEmitted(cbs, s) == \E i \in 1..Len(cbs) : cbs[i] = StateChange(s)

\* C20 as stated: the state changes only in transitionTo, that is in an
\* update or a setWanderEnabled that emits the state-change callback for
\* the new state; no other operation changes it.
C20_StateOnlyByTransition ==
    [][ state' # state
        => ( /\ observed'.op \in {"update", "setWanderEnabled"}
             /\ StateChangeEmitted(emitted', state') ) ]_vars

\* C20 as amended: the state changes only in transitionTo or in reset,
\* which assigns idle.
C20_StateByTransitionOrReset ==
    [][ state' # state
        => \/ /\ observed'.op \in {"update", "setWanderEnabled"}
              /\ StateChangeEmitted(emitted', state')
           \/ /\ observed'.op = "loadPet"
              /\ state' = "idle" ]_vars

\* No frame before the one at 9000 ms can leave idle and the position-sync
\* flag is cleared, so that frame entered walk: the reset at 9000 ms took
\* the engine from there to idle, with no state-change callback
C20_Witness ==
    /\ observed.op = "loadPet"
    /\ clock = 9000
    /\ lastTransitionEval = 9000
    /\ ~positionSynced
    /\ state = "idle"
    /\ stateStartTime = 9000
    /\ emitted = << AnimationChange("idle", direction) >>

StateChangeNeedingSync ==
    /\ \E i \in 1..Len(emitted) : emitted[i].cb = "onStateChange"
    /\ ~positionSynced

SyncedByHost ==
    /\ observed.op \in {"outerPosition.then", "outerPosition.catch"}
    /\ positionSynced

\* C19: every state-change callback that leaves the engine needing a
\* position sync is eventually followed by the host's syncPosition; the
\* sync made when outerPosition() resolves sets the window's position, the
\* sync made when it rejects keeps the engine's position; and a blocked
\* engine is eventually unblocked.
C19_SyncEventuallyFollows ==
    /\ StateChangeNeedingSync ~> SyncedByHost
    /\ ~positionSynced ~> positionSynced
    /\ [][ observed'.op = "outerPosition.then"
           => ( << x', y' >> = windowPosition /\ positionSynced' ) ]_vars
    /\ [][ observed'.op = "outerPosition.catch"
           => ( x' = x /\ y' = y /\ positionSynced' ) ]_vars

\* The promise started on entering walk was rejected: movement is unblocked
\* at the engine's own position although the window is elsewhere
C19_Witness ==
    /\ observed.op = "outerPosition.catch"
    /\ state = "walk"
    /\ positionSynced
    /\ outerPositionPending = 0
    /\ << x, y >> # windowPosition

----------------------------------------------------------------------------
(* The throttle, transitionTo, syncPosition, the movement step, the edges   *)
(* of the state table, gravity and isActive                                 *)

\* C21: update(now, dt) evaluates the transitions only when
\* now - lastTransitionEval >= 500 and then sets lastTransitionEval to now;
\* a frame that comes sooner leaves lastTransitionEval, the state and the
\* state-entry timestamp alone and emits no state-change callback.  So
\* whenever lastTransitionEval moves it moves to now and by at least 500 ms:
\* two consecutive evaluations are at least 500 ms apart.
C21_EvaluationThrottled ==
    [][ observed'.op = "update"
        => /\ IF clock' - lastTransitionEval >= TRANSITION_INTERVAL
              THEN lastTransitionEval' = clock'
              ELSE /\ lastTransitionEval' = lastTransitionEval
                   /\ state' = state
                   /\ stateStartTime' = stateStartTime
                   /\ \A s \in BehaviorStates : ~StateChangeEmitted(emitted', s)
           /\ lastTransitionEval' # lastTransitionEval
              => /\ lastTransitionEval' = clock'
                 /\ lastTransitionEval' - lastTransitionEval
                        >= TRANSITION_INTERVAL ]_vars

\* A frame 250 ms after an evaluation, in idle past minDuration with
\* switchRate > 6 and draw 0.99: the idle->run rule holds, and nothing was
\* evaluated
C21_Witness ==
    /\ observed.op = "update"
    /\ observed.roll = 99
    /\ clock - lastTransitionEval = 250
    /\ state = "idle"
    /\ wanderEnabled
    /\ clock - stateStartTime = 3000
    /\ RatGT(switchRate, 6, 1)
    /\ emitted = << >>


\* C22: a transition that is not vetoed sets the state to its target and
\* the state-entry timestamp to now, blocks movement (positionSynced false)
\* when the target is walk or run and leaves the flag as it was when the
\* target is idle or sleep, and emits the animation-change callback with
\* the resolved animation and the current direction and after it the
\* state-change callback, all within the one call.
C22_TransitionEffects ==
    [][ \A s \in BehaviorStates :
          StateChangeEmitted(emitted', s)
          => /\ observed'.op \in {"update", "setWanderEnabled"}
             /\ state' = s
             /\ stateStartTime' = clock'
             /\ positionSynced' = (IF s \in {"walk", "run"}
                                   THEN FALSE ELSE positionSynced)
             /\ direction' = direction
             /\ emitted' = << AnimationChange(
                                 IF STATE_CONFIGS[s].animation
                                        \in availableAnimations'
                                 THEN STATE_CONFIGS[s].animation ELSE "idle",
                                 direction),
                              StateChange(s) >> ]_vars

\* The engine left run for idle by a frame, 9000 ms after the frame at
\* 3000 ms that had entered run, while movement was still blocked from
\* that entry: the flag is left as it was
C22_Witness ==
    /\ observed.op = "update"
    /\ clock = 12000
    /\ RatGT(switchRate, 6, 1)
    /\ state = "idle"
    /\ stateStartTime = clock
    /\ ~positionSynced
    /\ outerPositionPending = 2
    /\ emitted = << AnimationChange("idle", direction), StateChange("idle") >>


\* C23: syncPosition(x, y), which the host calls when its outerPosition()
\* read settles (with the window's position when it resolves, with the
\* engine's own when it rejects), sets the position to exactly (x, y), with
\* no clamping, and clears the block on movement (needsPositionSync is
\* false after it); it leaves the state, the state-entry timestamp, the
\* time of the last evaluation, the direction, the vertical velocity, the
\* bounds and the wander flag unchanged and emits no callback.
C23_SyncPositionExact ==
    [][ observed'.op \in {"outerPosition.then", "outerPosition.catch"}
        => /\ << x', y' >> = ( IF observed'.op = "outerPosition.then"
                               THEN windowPosition ELSE << x, y >> )
           /\ positionSynced'
           /\ emitted' = << >>
           /\ UNCHANGED << state, stateStartTime, lastTransitionEval,
                           direction, velocityY, wanderEnabled,
                           screenWidth, screenHeight, petSize,
                           activityLevel, switchRate, isMonitoring,
                           availableAnimations >> ]_vars

\* A sync while walking with movement blocked, to a window position right
\* of the walkable range: the position is taken as given and movement is
\* unblocked
C23_Witness ==
    /\ observed.op = "outerPosition.then"
    /\ state = "walk"
    /\ pendingEntry = FALSE
    /\ positionSynced
    /\ stateStartTime = clock
    /\ << x, y >> = windowPosition
    /\ x > RightEdge


\* C24 as stated: updateBounds leaves x, y and the direction unchanged,
\* also when the position is out of range for the new bounds, and the first
\* moveHorizontal call after it puts x inside [4, screenWidth - petSize - 4]
\* of the new bounds.
C24_ReclampAfterBounds ==
    [][ /\ observed'.op = "updateBounds"
           => ( x' = x /\ y' = y /\ direction' = direction )
        /\ ( observed.op = "updateBounds" /\ observed'.op = "moveHorizontal" )
           => ( MARGIN <= x' /\ x' <= RightEdge' ) ]_vars

\* C24 as amended: updateBounds leaves x, y and the direction unchanged;
\* the first moveHorizontal call after it puts x inside
\* [4, screenWidth - petSize - 4] when that range is not empty, and on one
\* of the two margins, 4 or screenWidth - petSize - 4, when it is.
C24_ReclampAfterFittingBounds ==
    [][ /\ observed'.op = "updateBounds"
           => ( x' = x /\ y' = y /\ direction' = direction )
        /\ ( observed.op = "updateBounds" /\ observed'.op = "moveHorizontal" )
           => IF RightEdge' >= MARGIN
              THEN MARGIN <= x' /\ x' <= RightEdge'
              ELSE x' \in {MARGIN, RightEdge'} ]_vars

\* updateBounds has just narrowed the screen to 26: the range is [4, 6] and
\* x, left where it was, is right of it, heading right
C24_Witness ==
    /\ observed.op = "updateBounds"
    /\ screenWidth = Px(26)
    /\ RightEdge > MARGIN
    /\ x > RightEdge
    /\ direction = 1


CallbacksNamed(cbs, name) == { i \in 1..Len(cbs) : cbs[i].cb = name }

\* C25: in the movement step of update() the position-change callback is
\* emitted exactly when round(x) after the step differs from round(x)
\* before it, and carries the new position; the animation-change callback
\* is emitted exactly when the direction flipped, and carries the resolved
\* animation of the current state and the new direction; in idle and in
\* sleep update() emits no position-change callback and leaves the
\* position unchanged.
C25_MovementCallbacks ==
    [][ observed'.op = "update"
        => /\ CallbacksNamed(emitted', "onPositionChange") # {}
              <=> MathRound(x') # MathRound(x)
           /\ \A i \in CallbacksNamed(emitted', "onPositionChange") :
                 emitted'[i] = PositionChange(x', y')
           /\ CallbacksNamed(emitted', "onStateChange") = {}
              => /\ CallbacksNamed(emitted', "onAnimationChange") # {}
                    <=> direction' # direction
                 /\ \A i \in CallbacksNamed(emitted', "onAnimationChange") :
                       emitted'[i] =
                           AnimationChange(
                               IF STATE_CONFIGS[state'].animation
                                      \in availableAnimations'
                               THEN STATE_CONFIGS[state'].animation
                               ELSE "idle",
                               direction')
           /\ ( state \in {"idle", "sleep"} \/ state' \in {"idle", "sleep"} )
              => /\ x' = x /\ y' = y /\ direction' = direction
                 /\ CallbacksNamed(emitted', "onPositionChange") = {} ]_vars

\* A walking frame of 5 ms from x = 11.9 heading right: x is clamped to the
\* right margin 12 and the direction flips, round(x) stays 12, so the
\* animation-change callback is emitted and the position-change callback
\* is not, although x changed
C25_Witness ==
    /\ observed.op = "update"
    /\ observed.dt = 5
    /\ state = "walk"
    /\ positionSynced
    /\ x = RightEdge
    /\ direction = -1
    /\ availableAnimations = {"idle"}
    /\ emitted = << AnimationChange("idle", -1) >>
    /\ lastTransitionEval = clock - 16


TransitionEdges ==
    { << "idle", "walk" >>, << "idle", "sleep" >>, << "idle", "run" >>,
      << "walk", "idle" >>, << "sleep", "idle" >>,
      << "run", "walk" >>, << "run", "idle" >> }

\* C26: every change of state made by an evaluation of the transitions in
\* update() follows one of the edges idle->walk, idle->sleep, idle->run,
\* walk->idle, sleep->idle, run->walk, run->idle; so sleep is entered only
\* from idle and left only to idle, walk is left only to idle, and run is
\* entered only from idle.
C26_TransitionEdges ==
    [][ ( observed'.op = "update" /\ state' # state )
        => /\ << state, state' >> \in TransitionEdges
           /\ state' = "sleep" => state = "idle"
           /\ state = "sleep" => state' = "idle"
           /\ state = "walk" => state' = "idle"
           /\ state' = "run" => state = "idle" ]_vars

\* Walk was entered by a frame whose draw was 0.99: the idle->walk rule
\* asks for a draw below 0.15, so the edge taken is run->walk
C26_Witness ==
    /\ observed.op = "update"
    /\ observed.roll = 99
    /\ state = "walk"
    /\ stateStartTime = clock
    /\ RatLT(switchRate, 3, 1)
    /\ emitted = << AnimationChange("walk", direction), StateChange("walk") >>


Evaluates == clock' - lastTransitionEval >= TRANSITION_INTERVAL

\* C27: an evaluation in sleep with activityLevel > 0.6 and more than
\* 15000 ms in the state transitions to idle for every draw; with
\* activityLevel <= 0.6 the engine leaves sleep only when more than
\* 30000 ms have passed in the state and the draw is below 0.05, and then
\* it does.
C27_WakeUp ==
    [][ ( observed'.op = "update" /\ state = "sleep" /\ Evaluates )
        => LET t == clock' - stateStartTime
           IN  /\ ( RatGT(activityLevel, 6, 10) /\ t > 15000 )
                  => state' = "idle"
               /\ ~RatGT(activityLevel, 6, 10)
                  => ( state' # "sleep"
                       <=> ( t > 30000 /\ observed'.roll < 5 ) )
               /\ state' \in {"sleep", "idle"} ]_vars

\* Idle was entered by a frame whose draw was 0.99, 15250 ms after the
\* entry into the state before: only the activity rule of sleep does that
C27_Witness ==
    /\ observed.op = "update"
    /\ observed.roll = 99
    /\ state = "idle"
    /\ stateStartTime = clock
    /\ clock - StepBase = 15250
    /\ RatGT(activityLevel, 6, 10)
    /\ ~RatGT(activityLevel, 5, 8)
    /\ emitted = << AnimationChange("idle", direction), StateChange("idle") >>


\* The rules of run as C28 states them, for an evaluation t ms into run
RunRulesAsStated(t) ==
    /\ ( RatLT(switchRate, 3, 1) /\ t > 3000 ) => state' = "walk"
    /\ ( ~RatLT(switchRate, 3, 1) /\ state' # "run" )
       => ( state' = "idle" /\ t > 6000 /\ observed'.roll < 20 )

\* Neither the walk rule nor the sleep rule of idle holds t ms into idle
NeitherWalkNorSleep(t) ==
    /\ ~( t > 8000 /\ observed'.roll < 15 )
    /\ ~( t > 20000
          /\ observed'.roll < ( IF observed'.hour >= 22 \/ observed'.hour < 6
                                THEN 30 ELSE 10 ) )

\* C28 as stated: an evaluation in run with switchRate < 3 and more than
\* 3000 ms in the state transitions to walk, also when the run->idle rule
\* holds too; with switchRate >= 3 the engine leaves run only to idle and
\* only when more than 6000 ms have passed and the draw is below 0.20.
\* From idle, switchRate > 6 past the minimum duration transitions to run
\* when neither the walk rule nor the sleep rule holds.
C28_RunRules ==
    [][ ( observed'.op = "update" /\ Evaluates )
        => LET t == clock' - stateStartTime
           IN  /\ state = "run" => RunRulesAsStated(t)
               /\ ( /\ state = "idle"
                    /\ t >= 2000
                    /\ RatGT(switchRate, 6, 1)
                    /\ NeitherWalkNorSleep(t) )
                  => state' = "run" ]_vars

\* C28 as amended: the rules of run as stated; from idle, switchRate > 6
\* past the minimum duration, when neither the walk rule nor the sleep
\* rule holds, transitions to run if wander is enabled and leaves the
\* state idle if it is disabled.
C28_RunRulesWander ==
    [][ ( observed'.op = "update" /\ Evaluates )
        => LET t == clock' - stateStartTime
           IN  /\ state = "run" => RunRulesAsStated(t)
               /\ ( /\ state = "idle"
                    /\ t >= 2000
                    /\ RatGT(switchRate, 6, 1)
                    /\ NeitherWalkNorSleep(t) )
                  => state' = ( IF wanderEnabled THEN "run" ELSE "idle" ) ]_vars

\* Walk was entered by a frame with draw 0, 6250 ms after the entry into
\* the state before: that state was run (idle goes to walk only after
\* 8000 ms), and its rule to idle held as well
C28_Witness ==
    /\ observed.op = "update"
    /\ observed.roll = 0
    /\ state = "walk"
    /\ stateStartTime = clock
    /\ clock - StepBase = 6250
    /\ RatLT(switchRate, 3, 1)
    /\ emitted = << AnimationChange("walk", direction), StateChange("walk") >>


\* C29: applyGravity(dt) with dt >= 0 adds 800 * dt to the velocity, caps
\* it at 600, advances y by velocity * dt, and returns true exactly when
\* the new y is at or past groundY = screenHeight - petSize, in which case
\* y is set to groundY and the velocity to 0; after any call y <= groundY
\* and the velocity is in [0, 600].  (dt in ms, velocity in 1/1000 px/s.)
C29_Gravity ==
    [][ observed'.op \in {"applyGravity.true", "applyGravity.false"}
        => LET dt     == observed'.dt
               v1     == velocityY + 800 * dt
               v2     == IF v1 > 600 * PosScale THEN 600 * PosScale ELSE v1
               y1     == y + (v2 * dt) \div 1000
               ground == screenHeight - petSize
           IN  /\ dt >= 0
               /\ observed'.op = "applyGravity.true" <=> y1 >= ground
               /\ IF y1 >= ground
                  THEN y' = ground /\ velocityY' = 0
                  ELSE y' = y1 /\ velocityY' = v2
               /\ y' <= ground
               /\ 0 <= velocityY' /\ velocityY' <= 600 * PosScale ]_vars

\* A call that returned false with the velocity at its cap: the call
\* before had brought it to 560 or more, and the ground is still below
C29_Witness ==
    /\ observed.op = "applyGravity.false"
    /\ observed.dt = 100
    /\ velocityY = 600 * PosScale
    /\ y < screenHeight - petSize


\* The instants at which isActive is read, after the tick pushed last
ReadInstants == { clock + d : d \in {0, 1, 14999, 15000, 15001, 60000} }

\* The retained ticks with hash_distance and was_skipped blanked
Blanked(ts) ==
    [ i \in 1..Len(ts) |->
        [ ts[i] EXCEPT !.hash_distance = 0, !.was_skipped = FALSE ] ]

\* C30: isActive read at the instant now is true exactly when at least one
\* tick is retained and now - (timestamp of the tick pushed last) < 15000;
\* it does not depend on hash_distance or was_skipped, nor on
\* activityLevel.
C30_IsActive ==
    \A now \in ReadInstants :
        /\ signalsIsActive(ticks, now)
           <=> ( Len(ticks) > 0 /\ now - clock < 15000 )
        /\ Len(ticks) > 0 <=> observed.op = "push"
        /\ signalsIsActive(ticks, now) = signalsIsActive(Blanked(ticks), now)

\* Every retained tick was skipped, so activityLevel is 0, and the tick
\* pushed last is older than the one before it: isActive is true 14999 ms
\* after its timestamp and false 15000 ms after it
C30_Witness ==
    /\ Len(ticks) = 2
    /\ \A i \in 1..Len(ticks) : ticks[i].was_skipped
    /\ signalsActivityLevel(ticks).num = 0
    /\ ticks[2].timestamp < ticks[1].timestamp
    /\ ticks[2].timestamp = clock
    /\ signalsIsActive(ticks, clock + 14999)
    /\ ~signalsIsActive(ticks, clock + 15000)


----------------------------------------------------------------------------
(* Determinism of the evaluation, the sleep rule by day, the veto, reset,   *)
(* the signals, progress, and the order of the steps of a frame             *)

\* A second engine in the same state, with the same wander flag and the
\* same signals, entered its state at 0 and differs in everything else:
\* position, direction, sync flag, animations, bounds and past evaluation
Twin ==
    [ Eng EXCEPT !.stateStartTime = 0,
                 !.lastTransitionEval = 0,
                 !.positionSynced = ~positionSynced,
                 !.availableAnimations = {},
                 !.x = Px(30), !.y = 0,
                 !.direction = 0 - direction,
                 !.velocityY = 40000,
                 !.screenWidth = Px(20) ]

\* C31: the outcome of a transition evaluation is a function of the current
\* state, the wander flag and the context (time-in-state, activityLevel,
\* switchRate, hour, isMonitoring, one random draw) only: a second engine
\* in the same state with the same wander flag, given the same context,
\* reaches the same next state, whatever its position, direction, sync flag
\* and history.
C31_EvaluationDeterministic ==
    [][ ( observed'.op = "update" /\ Evaluates )
        => state' = evaluateTransitions(Twin, clock' - stateStartTime,
                                        observed'.hour, observed'.roll).state
      ]_vars

\* An evaluation took an engine with wander disabled and a position sync
\* pending from idle to sleep (entering sleep leaves the sync flag as it
\* was)
C31_Witness ==
    /\ observed.op = "update"
    /\ state = "sleep"
    /\ stateStartTime = clock
    /\ ~wanderEnabled
    /\ ~positionSynced
    /\ lastTransitionEval = clock



\* The sample read now, the window's position, agrees with the last sample
\* of the waitForDragEnd call p: both axes differ by less than 1 px
AgreesWithLast(p) ==
    /\ p.sampled
    /\ Abs(windowPosition[1] - p.lastX) < PosScale
    /\ Abs(windowPosition[2] - p.lastY) < PosScale

\* The waitForDragEnd calls whose loop took the turn of this step
PollsTurned ==
    { i \in 1..Len(dragPolls) :
        IF Len(dragPolls') = Len(dragPolls)
        THEN dragPolls'[i] # dragPolls[i]
        ELSE dragPolls' = RemoveAt(dragPolls, i) }

\* What C32 says of the value returned, and of a failed read
PollReturnsLastSample ==
    /\ observed'.op = "waitForDragEnd.return"
       => /\ Len(dragPolls') = Len(dragPolls) - 1
          /\ finalPos' = Append(finalPos,
                                Returned(windowPosition, "waitForDragEnd.return"))
    /\ observed'.op = "waitForDragEnd.catch"
       => /\ Len(dragPolls') = Len(dragPolls) - 1
          /\ \E i \in PollsTurned :
                finalPos' = Append(finalPos,
                    Returned(IF dragPolls[i].sampled
                             THEN << dragPolls[i].lastX, dragPolls[i].lastY >>
                             ELSE << x, y >>, "waitForDragEnd.catch"))
    /\ observed'.op = "onPointerMove.resume"
       => /\ << x', y' >> = << Head(finalPos).x, Head(finalPos).y >>
          /\ finalPos' = Tail(finalPos)

\* C32 as stated: the drag-settle polling loop ends as soon as two
\* consecutive position samples agree within 1 unit on both axes, and it
\* also ends when a position read fails; it then returns the last sample,
\* or the engine's position when no sample was ever read.
C32_EndsAtFirstAgreement ==
    [][ /\ observed'.op = "waitForDragEnd.sample"
           => \A i \in PollsTurned : ~AgreesWithLast(dragPolls[i])
        /\ observed'.op = "waitForDragEnd.return"
           => \E i \in PollsTurned : AgreesWithLast(dragPolls[i])
        /\ PollReturnsLastSample ]_vars

\* C32 as amended: the loop ends as soon as two consecutive comparisons
\* agree, that is when a sample agrees with the one before it (both axes
\* differ by less than 1 unit) and that one agreed with the one before it
\* (stableCount reaches 2, three samples); a sample that disagrees starts
\* the count again.  It also ends when a position read fails, and returns
\* the last sample, or the engine's position when no sample was ever read.
C32_EndsAtSecondAgreement ==
    [][ /\ observed'.op = "waitForDragEnd.sample"
           => \A i \in PollsTurned :
                 /\ ~( AgreesWithLast(dragPolls[i])
                       /\ dragPolls[i].stableCount = 1 )
                 /\ dragPolls'[i].stableCount
                        = ( IF AgreesWithLast(dragPolls[i]) THEN 1 ELSE 0 )
        /\ observed'.op = "waitForDragEnd.return"
           => \E i \in PollsTurned :
                 /\ AgreesWithLast(dragPolls[i])
                 /\ dragPolls[i].stableCount = 1
        /\ PollReturnsLastSample ]_vars

\* The only drag has settled half a pixel from where the window was: the
\* loop returned that sample, and onPointerMove, resumed, has synced the
\* walking engine to it
C32_Witness ==
    /\ observed.op = "onPointerMove.resume"
    /\ hostEvents = 1
    /\ dragPolls = << >>
    /\ finalPos = << >>
    /\ ~isDragging
    /\ windowPosition = << 4500, Px(24) >>
    /\ << x, y >> = windowPosition
    /\ positionSynced
    /\ state = "walk"


\* C33 as stated: from the moment a drag starts until its settle poll
\* completes the game loop does not call engine.update, so the engine's
\* position does not change by simulated movement and no position-change
\* callback is emitted during the drag; when the drag ends the host calls
\* syncPosition with the final polled window position, so the engine's
\* position equals it and movement is unblocked.
C33_NoUpdateWhileDragging ==
    [][ /\ ( startDraggingPending > 0 \/ dragPolls # << >> )
           => /\ observed'.op # "update"
              /\ CallbacksNamed(emitted', "onPositionChange") = {}
        /\ ( /\ observed'.op = "onPointerMove.resume"
             /\ Head(finalPos).op = "waitForDragEnd.return" )
           => ( << x', y' >> = windowPosition /\ positionSynced' ) ]_vars


\* C34: during daytime hours (6 <= hour < 22) no evaluation in idle yields
\* sleep, with wander enabled or disabled, because a context that meets
\* the sleep rule by day (time > 20000 ms, draw < 0.10) meets the earlier
\* walk rule (time > 8000 ms, draw < 0.15) too.  Sleep is entered only when
\* the hour is in [22, 24) or [0, 6), the time in idle is above 20000 ms
\* and the draw is in [0.15, 0.30).
C34_NoSleepByDay ==
    [][ observed'.op = "update"
        => LET hour == observed'.hour
               t    == clock' - stateStartTime
           IN  /\ ( state = "idle" /\ 6 <= hour /\ hour < 22 )
                  => state' # "sleep"
               /\ ( state' = "sleep" /\ state # "sleep" )
                  => /\ state = "idle"
                     /\ hour >= 22 \/ hour < 6
                     /\ t > 20000
                     /\ 15 <= observed'.roll /\ observed'.roll < 30 ]_vars

\* Sleep was entered at 5 o'clock with wander disabled on a draw of 0.15,
\* the lowest that passes the walk rule by
C34_Witness ==
    /\ observed.op = "update"
    /\ observed.hour = 5
    /\ observed.roll = 15
    /\ state = "sleep"
    /\ stateStartTime = clock
    /\ ~wanderEnabled
    /\ emitted = << AnimationChange("sleep", direction), StateChange("sleep") >>


\* The first rule of idle that holds t ms into the state targets walk or
\* run: the walk rule holds, or neither it nor the sleep rule holds and
\* the run rule does
IdleFirstMatchMoves(t) ==
    \/ ( t > 8000 /\ observed'.roll < 15 )
    \/ ( NeitherWalkNorSleep(t) /\ RatGT(switchRate, 6, 1) )

\* C35: when wander is disabled and the first matching rule targets walk
\* or run, the evaluation ends with the state unchanged, and later rules of
\* the same state are not tried in that evaluation: in idle with more than
\* 20000 ms in the state, at a night hour and with a draw below 0.15, the
\* engine stays idle instead of going to sleep.
C35_VetoEndsEvaluation ==
    [][ ( /\ observed'.op = "update"
          /\ Evaluates
          /\ ~wanderEnabled
          /\ state = "idle"
          /\ clock' - stateStartTime >= 2000
          /\ IdleFirstMatchMoves(clock' - stateStartTime) )
        => /\ state' = "idle"
           /\ stateStartTime' = stateStartTime
           /\ emitted' = << >> ]_vars

\* An evaluation at 23 o'clock, 21000 ms into idle with wander disabled, on
\* a draw of 0.14: the sleep rule holds as well, and the engine is still in
\* idle since the same entry
C35_Witness ==
    /\ observed.op = "update"
    /\ observed.hour = 23
    /\ observed.roll = 14
    /\ ~wanderEnabled
    /\ state = "idle"
    /\ lastTransitionEval = clock
    /\ clock - stateStartTime = 21000
    /\ emitted = << >>


\* C36: reset(x, y) leaves the position-sync flag, the wander flag, the
\* direction, the activity signals and the time of the last evaluation
\* unchanged, emits exactly one animation-change callback, with the
\* literal name "idle", and neither a state-change nor a position-change
\* callback; a reset made while a sync is pending leaves needsPositionSync
\* true, in idle.
C36_ResetFrame ==
    [][ observed'.op = "loadPet"
        => /\ UNCHANGED << positionSynced, wanderEnabled, direction,
                           activityLevel, switchRate, isMonitoring,
                           lastTransitionEval >>
           /\ emitted' = << AnimationChange("idle", direction) >>
           /\ state' = "idle"
           /\ ~positionSynced => ( ~positionSynced' /\ state' = "idle" ) ]_vars

\* A reset of an engine with no animation named idle whose sync was
\* pending: idle, still blocked, one animation-change callback
C36_Witness ==
    /\ observed.op = "loadPet"
    /\ state = "idle"
    /\ ~positionSynced
    /\ isMonitoring
    /\ RatGT(switchRate, 6, 1)
    /\ RatGT(activityLevel, 0, 1)
    /\ availableAnimations = {}
    /\ emitted = << AnimationChange("idle", direction) >>


\* The engine as it would be had the last setActivitySignals been given
\* the other isMonitoring
OtherMonitoring == [Eng EXCEPT !.isMonitoring = ~isMonitoring]

\* Two engines after a frame agree on everything but the stored
\* isMonitoring: state, timers, flag, position, direction and callbacks
SameFrame(e, other) ==
    [e EXCEPT !.isMonitoring = other.isMonitoring] = other

\* Every frame the game loop can run next gives the same engine, up to
\* the stored isMonitoring, whichever isMonitoring the engine was given
FramesIgnoreMonitoring ==
    \A now \in FrameTimes, dt \in FrameDts, hour \in Hours, roll \in Rolls :
        \E e \in { update(Eng, now, dt, hour, roll) },
           other \in { update(OtherMonitoring, now, dt, hour, roll) } :
            SameFrame(e, other)

\* C37: the isMonitoring input never influences the behaviour: a run that
\* differs only in the isMonitoring values passed to setActivitySignals
\* goes through the same states, positions and callbacks.  In every state
\* the host reaches, each frame the game loop can run next makes the same
\* engine and the same callbacks whichever isMonitoring is stored;
\* setActivitySignals changes only the three stored signals, and update()
\* never modifies them.
C37_MonitoringIgnored ==
    /\ []FramesIgnoreMonitoring
    /\ [][ /\ observed'.op = "update"
              => UNCHANGED << activityLevel, switchRate, isMonitoring >>
           /\ observed'.op = "onActivityTick"
              => /\ UNCHANGED << state, stateStartTime, lastTransitionEval,
                                 positionSynced, wanderEnabled,
                                 availableAnimations, movementVars >>
                 /\ emitted' = << >> ]_vars

\* After two ticks from different apps, passed on by the listener with
\* isMonitoring true and a switch rate above 6, a frame took the engine
\* from idle to run
C37_Witness ==
    /\ observed.op = "update"
    /\ Len(ticks) = 2
    /\ isMonitoring
    /\ RatGT(switchRate, 6, 1)
    /\ state = "run"
    /\ stateStartTime = clock


\* A frame that evaluated the transitions with a draw below limit
\* hundredths (after the frame the last evaluation is 0 ms old)
LowDraw(limit) ==
    /\ observed'.op = "update"
    /\ observed'.roll < limit
    /\ lastTransitionEval' = clock'

\* C38: no state is terminal.  Under frames that keep arriving, when draws
\* below 0.20 occur infinitely often an engine in walk eventually
\* transitions to idle and an engine in run eventually leaves run, for any
\* activity signals; when draws below 0.05 occur infinitely often an
\* engine in sleep eventually returns to idle.
C38_NoTerminalState ==
    /\ ( []<><< LowDraw(20) >>_vars )
       => ( /\ ( state = "walk" ) ~> ( state = "idle" )
            /\ ( state = "run" ) ~> ( state # "run" ) )
    /\ ( []<><< LowDraw(5) >>_vars )
       => ( ( state = "sleep" ) ~> ( state = "idle" ) )

\* Idle was entered on a draw of 0.10 with a switch rate below 3 and an
\* activity level of 0: neither run nor sleep is left that way, so the
\* engine came from walk
C38_Witness ==
    /\ observed.op = "update"
    /\ observed.roll = 10
    /\ state = "idle"
    /\ stateStartTime = clock
    /\ RatLT(switchRate, 3, 1)
    /\ activityLevel.num = 0
    /\ emitted = << AnimationChange("idle", direction), StateChange("idle") >>


\* C39: within one update() call the transitions are evaluated before the
\* movement step, and the movement step uses the state held after the
\* evaluation: in a call in which a transition fires (walk or run to idle,
\* or into walk or run, whose sync flag the transition has just cleared)
\* the position and the direction do not change and no position-change
\* callback is invoked; a call that leaves the state alone moves the pet
\* only if that state can move and the position is synced.
C39_EvaluationBeforeMovement ==
    [][ observed'.op = "update"
        => /\ state' # state
              => /\ x' = x /\ y' = y /\ direction' = direction
                 /\ CallbacksNamed(emitted', "onPositionChange") = {}
           /\ x' # x
              => /\ state' = state
                 /\ STATE_CONFIGS[state'].canMove
                 /\ positionSynced' ]_vars

\* A frame with dt = 0.1 s fired walk -> idle on a synced engine (at
\* 9000 ms and activity 0 neither sleep nor run reaches idle)
C39_Witness ==
    /\ observed.op = "update"
    /\ observed.dt = 100
    /\ state = "idle"
    /\ stateStartTime = clock
    /\ positionSynced
    /\ x = Px(12)
    /\ emitted = << AnimationChange(resolveAnimation(Eng, "idle"), direction),
                    StateChange("idle") >>

====
